---- MODULE Spec2Model ----
(***************************************************************************)
(* Model of the smali instruction codec: the operand parsers, the mnemonic  *)
(* dispatcher parse_dex_op and the Display serializer of DexOp.             *)
(*                                                                          *)
(* Texts are TLA+ strings, read one character at a time with SubSeq.  A     *)
(* parser is an operator from the remaining input to a result record:       *)
(*   [ok |-> TRUE, val |-> v, rest |-> r]   the parser consumed a prefix    *)
(*   [ok |-> FALSE]                         the parser returned Err         *)
(* Operand values are records tagged with the field k.                      *)
(***************************************************************************)
EXTENDS Integers, Sequences, FiniteSets, TLC

(***************************************************************************)
(* Characters                                                               *)
(***************************************************************************)
CharsOf(s) == {SubSeq(s, i, i) : i \in 1..Len(s)}

HexLower == "0123456789abcdef"
HexUpper == "0123456789ABCDEF"
DecDigits == CharsOf("0123456789")
HexDigits == CharsOf(HexLower) \cup CharsOf(HexUpper)
Letters == CharsOf("abcdefghijklmnopqrstuvwxyz") \cup CharsOf("ABCDEFGHIJKLMNOPQRSTUVWXYZ")
AlphaNumeric == Letters \cup DecDigits
\* winnow::ascii::space0 / space1
SpaceChars == {" ", "\t"}
\* winnow::ascii::multispace0
MultispaceChars == {" ", "\t", "\r", "\n"}

DigitVal(c) == CHOOSE d \in 0..15 : c = SubSeq(HexLower, d + 1, d + 1) \/ c = SubSeq(HexUpper, d + 1, d + 1)

At(s, i) == SubSeq(s, i, i)
Drop(s, n) == SubSeq(s, n + 1, Len(s))
Take(s, n) == SubSeq(s, 1, n)
StartsWith(s, p) == Len(s) >= Len(p) /\ Take(s, Len(p)) = p

(***************************************************************************)
(* Parser results and the primitive combinators of winnow that the code    *)
(* uses: one_of, literal, take_while, space0, space1, multispace0.          *)
(***************************************************************************)
Fail == [ok |-> FALSE]
Ok(v, r) == [ok |-> TRUE, val |-> v, rest |-> r]

RECURSIVE SpanIn(_, _, _)
\* number of leading characters of s, from position i on, that lie in cls
SpanIn(s, cls, i) == IF i <= Len(s) /\ At(s, i) \in cls THEN SpanIn(s, cls, i + 1) ELSE i - 1

RECURSIVE SpanNotIn(_, _, _)
SpanNotIn(s, cls, i) == IF i <= Len(s) /\ At(s, i) \notin cls THEN SpanNotIn(s, cls, i + 1) ELSE i - 1

\* take_while(min.., |c| c in cls)
Taken(s, n, min) == IF n >= min THEN Ok(Take(s, n), Drop(s, n)) ELSE Fail
TakeWhile(s, cls, min) == Taken(s, SpanIn(s, cls, 1), min)

\* take_while(0.., |c| c not in cls)
TakeUntil(s, cls) == Taken(s, SpanNotIn(s, cls, 1), 0)

one_of(s, cls) == IF Len(s) >= 1 /\ At(s, 1) \in cls THEN Ok(At(s, 1), Drop(s, 1)) ELSE Fail
literal(s, p) == IF StartsWith(s, p) THEN Ok(p, Drop(s, Len(p))) ELSE Fail
space0(s) == Drop(s, SpanIn(s, SpaceChars, 1))
space1(s) == TakeWhile(s, SpaceChars, 1)
multispace0(s) == Drop(s, SpanIn(s, MultispaceChars, 1))

\* delimited(space0, one_of(','), space0)
comma_separator(a) == IF Len(a) >= 1 /\ At(a, 1) = "," THEN Ok(",", space0(Drop(a, 1))) ELSE Fail
comma(s) == comma_separator(space0(s))

(***************************************************************************)
(* lib.rs: comment and the ws wrapper.  ws(inner) skips whitespace, runs    *)
(* inner, skips whitespace, and then an optional line comment with the      *)
(* whitespace after it.  wsTail is the part of ws that runs after inner.    *)
(***************************************************************************)
comment(s) ==
    IF Len(s) >= 1 /\ At(s, 1) = "#" THEN TakeUntil(Drop(s, 1), {"\n"}) ELSE Fail

ws_comment(a, c) == IF c.ok THEN multispace0(c.rest) ELSE a
ws_trailing(a) == ws_comment(a, comment(a))
wsTail(s) == ws_trailing(multispace0(s))

ws(r) == IF r.ok THEN Ok(r.val, wsTail(r.rest)) ELSE Fail

(***************************************************************************)
(* Integers.  i8, i16 and i32 values are integers of the model; an i64 or   *)
(* a u32 value is its bit pattern, a big-endian sequence of hex nibbles     *)
(* (16 for i64, 8 for u32), because it does not fit a 32-bit integer.       *)
(***************************************************************************)
TypeBits(T) == CASE T = "i8" -> 8 [] T = "i16" -> 16 [] T = "i32" -> 32 [] T = "i64" -> 64 [] T = "u32" -> 32
IsSmall(T) == T \in {"i8", "i16", "i32"}
MaxOf(T) == CASE T = "i8" -> 127 [] T = "i16" -> 32767 [] T = "i32" -> 2147483647
MinOf(T) == -MaxOf(T) - 1

IntVal(T, v) == [k |-> T, v |-> v]
BitsVal(T, b) == [k |-> T, bits |-> b]

\* sequences are built as tuples, never as function constructors
Zeros(n) == SubSeq(<<0, 0, 0, 0, 0, 0, 0, 0, 0, 0, 0, 0, 0, 0, 0, 0>>, 1, n)

RECURSIVE MulAdd(_, _, _, _)
\* bits * radix + carry on a big-endian nibble sequence, from nibble i down to
\* the first; ovf when the result needs more nibbles than bits has
MulAdd(bits, radix, carry, i) ==
    IF i = 0 THEN [ovf |-> carry > 0, bits |-> bits]
    ELSE LET t == bits[i] * radix + carry
         IN MulAdd([bits EXCEPT ![i] = t % 16], radix, t \div 16, i - 1)

RECURSIVE AccBits(_, _, _, _)
\* unsigned value of the digit run, as nibbles; ok = FALSE on overflow
AccBits(digits, radix, bits, i) ==
    IF i > Len(digits) THEN [ok |-> TRUE, bits |-> bits]
    ELSE LET r == MulAdd(bits, radix, DigitVal(At(digits, i)), Len(bits))
         IN IF r.ovf THEN [ok |-> FALSE] ELSE AccBits(digits, radix, r.bits, i + 1)

RECURSIVE Invert(_, _)
Invert(bits, i) == IF i > Len(bits) THEN <<>> ELSE <<15 - bits[i]>> \o Invert(bits, i + 1)

\* two's complement negation of a nibble sequence
NegBits(bits) == MulAdd(Invert(bits, 1), 1, 1, Len(bits)).bits

IsMinMagnitude(bits) == bits[1] = 8 /\ \A i \in 2..Len(bits) : bits[i] = 0

RECURSIVE AccPos(_, _, _, _, _)
\* checked_mul / checked_add of from_str_radix for a value without sign
AccPos(digits, radix, max, acc, i) ==
    IF i > Len(digits) THEN [ok |-> TRUE, v |-> acc]
    ELSE LET d == DigitVal(At(digits, i))
         IN IF acc > (max - d) \div radix THEN [ok |-> FALSE]
            ELSE AccPos(digits, radix, max, acc * radix + d, i + 1)

RECURSIVE AccNeg(_, _, _, _, _)
\* checked_mul / checked_sub of from_str_radix for a value with a '-' sign
AccNeg(digits, radix, min, acc, i) ==
    IF i > Len(digits) THEN [ok |-> TRUE, v |-> acc]
    ELSE LET d == DigitVal(At(digits, i))
         IN IF acc < (min + d + radix - 1) \div radix THEN [ok |-> FALSE]
            ELSE AccNeg(digits, radix, min, acc * radix - d, i + 1)

\* from_str_radix with the sign applied after the conversion of the magnitude
from_str_radix_NegateAfter(T, neg, digits, radix) ==
    LET small(r) == IF r.ok THEN [ok |-> TRUE, val |-> IntVal(T, IF neg THEN -r.v ELSE r.v)] ELSE [ok |-> FALSE]
        wide(r) ==
            IF ~r.ok \/ (T = "u32" /\ neg) \/ (T # "u32" /\ r.bits[1] >= 8) THEN [ok |-> FALSE]
            ELSE [ok |-> TRUE, val |-> BitsVal(T, IF neg THEN NegBits(r.bits) ELSE r.bits)]
    IN IF Len(digits) = 0 THEN [ok |-> FALSE]
       ELSE IF IsSmall(T) THEN small(AccPos(digits, radix, MaxOf(T), 0, 1))
       ELSE wide(AccBits(digits, radix, Zeros(IF T = "u32" THEN 8 ELSE 16), 1))

\* T::from_str_radix(text, radix) where text is digits, or "-" and digits.
\* Err for no digit, for a '-' on an unsigned type and for a value outside T.
from_str_radix(T, neg, digits, radix) ==
    LET small(r) == IF r.ok THEN [ok |-> TRUE, val |-> IntVal(T, r.v)] ELSE [ok |-> FALSE]
        unsigned(r) == IF neg \/ ~r.ok THEN [ok |-> FALSE] ELSE [ok |-> TRUE, val |-> BitsVal(T, r.bits)]
        wide(r) ==
            IF ~r.ok THEN [ok |-> FALSE]
            ELSE IF neg THEN
                IF r.bits[1] < 8 \/ IsMinMagnitude(r.bits)
                THEN [ok |-> TRUE, val |-> BitsVal(T, NegBits(r.bits))] ELSE [ok |-> FALSE]
            ELSE IF r.bits[1] < 8 THEN [ok |-> TRUE, val |-> BitsVal(T, r.bits)] ELSE [ok |-> FALSE]
    IN IF Len(digits) = 0 THEN [ok |-> FALSE]
       ELSE IF IsSmall(T) THEN small(IF neg THEN AccNeg(digits, radix, MinOf(T), 0, 1)
                                     ELSE AccPos(digits, radix, MaxOf(T), 0, 1))
       ELSE IF T = "u32" THEN unsigned(AccBits(digits, radix, Zeros(8), 1))
       ELSE wide(AccBits(digits, radix, Zeros(16), 1))

\* lib.rs parse_int_lit::<T>()
parse_int_lit_converted(r, suffix, rest) ==
    IF r.ok THEN Ok(r.val, IF suffix.ok THEN suffix.rest ELSE rest) ELSE Fail
parse_int_lit_digits(T, neg, hex, run) ==
    parse_int_lit_converted(from_str_radix(T, neg, run.val, IF hex THEN 16 ELSE 10),
                            one_of(run.rest, {"L"}), run.rest)
parse_int_lit_radix(T, neg, a, hex) ==
    parse_int_lit_digits(T, neg, hex,
                         TakeWhile(IF hex THEN Drop(a, 2) ELSE a, IF hex THEN HexDigits ELSE DecDigits, 0))
parse_int_lit_unsigned(T, neg, a) == parse_int_lit_radix(T, neg, a, StartsWith(a, "0x") \/ StartsWith(a, "0X"))
parse_int_lit_signed(s, T, sign) == parse_int_lit_unsigned(T, sign.ok, IF sign.ok THEN sign.rest ELSE s)
parse_int_lit(s, T) == parse_int_lit_signed(s, T, one_of(s, {"-"}))

(***************************************************************************)
(* Formatting of integers: Display ({}) and LowerHex ({:x}).                *)
(***************************************************************************)
RECURSIVE DecOfNonPos(_)
\* decimal digits of -v, for v <= 0 (so that i32::MIN needs no negation)
DecOfNonPos(v) ==
    LET d == (10 - (v % 10)) % 10
        q == (v + d) \div 10
    IN (IF q = 0 THEN "" ELSE DecOfNonPos(q)) \o At(HexLower, d + 1)

\* Display of a signed or unsigned integer that fits the model's integers
FmtDec(v) == IF v < 0 THEN "-" \o DecOfNonPos(v) ELSE DecOfNonPos(-v)

RECURSIVE HexOfNat(_)
HexOfNat(n) == (IF n \div 16 = 0 THEN "" ELSE HexOfNat(n \div 16)) \o At(HexLower, (n % 16) + 1)

RECURSIVE HexFrom(_, _)
HexFrom(bits, i) == IF i > Len(bits) THEN "" ELSE At(HexLower, bits[i] + 1) \o HexFrom(bits, i + 1)

RECURSIVE FirstNonZero(_, _)
FirstNonZero(bits, i) == IF i < Len(bits) /\ bits[i] = 0 THEN FirstNonZero(bits, i + 1) ELSE i

\* hex digits of a nibble sequence without leading zeros, at least one digit
HexOfBits(bits) == HexFrom(bits, FirstNonZero(bits, 1))

\* {v:x} of an i16: the hex digits of its 16-bit two's complement pattern
HexOfI16(v) == HexOfNat(v % 65536)

(***************************************************************************)
(* op/dex_op.rs: registers.  op/mod.rs: labels.                             *)
(***************************************************************************)
Local(n) == [k |-> "Register", tag |-> "Local", n |-> n]
Parameter(n) == [k |-> "Register", tag |-> "Parameter", n |-> n]
U16Max == 65535

\* a parse into a wider type, truncated with `as u16`
ParseU16_Wrapping(digits) ==
    LET wrapped(r) == IF r.ok THEN [ok |-> TRUE, v |-> r.v % 65536] ELSE [ok |-> FALSE]
    IN wrapped(AccPos(digits, 10, 2147483647, 0, 1))

\* o.parse::<u16>()
ParseU16(digits) == AccPos(digits, 10, U16Max, 0, 1)

parse_register_value(t, o, num) ==
    IF num.ok THEN ws(Ok(IF t.val = "v" THEN Local(num.v) ELSE Parameter(num.v), o.rest)) ELSE Fail
parse_register_index(t, o) == parse_register_value(t, o, IF o.ok THEN ParseU16(o.val) ELSE [ok |-> FALSE])
parse_register_prefix(t) == parse_register_index(t, IF t.ok THEN TakeWhile(t.rest, DecDigits, 1) ELSE Fail)
parse_register(s) == parse_register_prefix(one_of(multispace0(s), {"v", "p"}))

\* impl Display for Register
FmtRegister(r) == (IF r.tag = "Parameter" THEN "p" ELSE "v") \o FmtDec(r.n)

Label(name) == [k |-> "Label", name |-> name]

parse_label_name(n) == IF n.ok THEN Ok(Label(n.val), n.rest) ELSE Fail
parse_label_colon(c) == parse_label_name(IF c.ok THEN TakeWhile(c.rest, AlphaNumeric \cup {"_", "$"}, 1) ELSE Fail)
\* A label whose name runs to the end of the line instead of stopping at the
\* first character outside [A-Za-z0-9_$].
parse_label_ToLineEnd(s) == parse_label_name(IF StartsWith(s, ":") THEN TakeUntil(Drop(s, 1), {"\n"}) ELSE Fail)
parse_label(s) == parse_label_colon(one_of(s, {":"}))

\* impl Display for Label
FmtLabel(l) == ":" \o l.name

RECURSIVE SeparatedRegisters(_, _)
\* the loop of separated(0.., parse_register(), (space0, ',', space0)) after
\* the first element: stops, without consuming, before a separator that no
\* register follows
SeparatedRegisters_next(s, acc, r) ==
    IF r.ok THEN SeparatedRegisters(r.rest, Append(acc, r.val)) ELSE Ok(acc, s)
SeparatedRegisters_separator(s, acc, c) ==
    SeparatedRegisters_next(s, acc, IF c.ok THEN parse_register(c.rest) ELSE Fail)
\* A list that forgets the registers before the last separator.
SeparatedRegisters_KeepLast(s, acc) == SeparatedRegisters_separator(s, <<>>, comma(s))
SeparatedRegisters(s, acc) == SeparatedRegisters_separator(s, acc, comma(s))

parse_register_list_closed(regs, close) ==
    IF close.ok THEN Ok([k |-> "Vec", regs |-> regs.val], close.rest) ELSE Fail
parse_register_list_elements(regs) ==
    parse_register_list_closed(regs, IF regs.ok THEN one_of(regs.rest, {"}"}) ELSE Fail)
parse_register_list_head(open, head) ==
    parse_register_list_elements(IF ~open.ok THEN Fail
                                 ELSE IF head.ok THEN SeparatedRegisters(head.rest, <<head.val>>)
                                 ELSE Ok(<<>>, open.rest))
parse_register_list_opened(open) ==
    parse_register_list_head(open, IF open.ok THEN parse_register(open.rest) ELSE Fail)
parse_register_list(s) == parse_register_list_opened(one_of(s, {"{"}))

\* A range that holds its two registers the other way round.
RegisterRange_Swapped(start, end) == [k |-> "RegisterRange", start |-> end, end |-> start]
RegisterRange(start, end) == [k |-> "RegisterRange", start |-> start, end |-> end]

parse_register_range_closed(start, end, close) ==
    IF close.ok THEN Ok(RegisterRange(start.val, end.val), space0(close.rest)) ELSE Fail
parse_register_range_end(start, end) ==
    parse_register_range_closed(start, end, IF end.ok THEN one_of(space0(end.rest), {"}"}) ELSE Fail)
parse_register_range_dots(start, dots) ==
    parse_register_range_end(start, IF dots.ok THEN parse_register(space0(dots.rest)) ELSE Fail)
parse_register_range_start(start) ==
    parse_register_range_dots(start, IF start.ok THEN literal(space0(start.rest), "..") ELSE Fail)
parse_register_range_opened(open) ==
    parse_register_range_start(IF open.ok THEN parse_register(space0(open.rest)) ELSE Fail)
parse_register_range(s) == parse_register_range_opened(one_of(space0(s), {"{"}))

\* impl Display for RegisterRange
FmtRegisterRange(r) == "{ " \o FmtRegister(r.start) \o " .. " \o FmtRegister(r.end) \o " }"

RECURSIVE JoinRegisters(_, _)
\* registers.iter().map(|r| format!("{r}")).collect::<Vec<_>>().join(", ")
JoinRegisters(regs, i) ==
    IF i > Len(regs) THEN ""
    ELSE FmtRegister(regs[i]) \o (IF i < Len(regs) THEN ", " ELSE "") \o JoinRegisters(regs, i + 1)

(***************************************************************************)
(* signature/type_signature.rs, signature/mod.rs, object_identifier.rs     *)
(***************************************************************************)
None == [some |-> FALSE]
Some(v) == [some |-> TRUE, v |-> v]

Primitive(c) ==
    CASE c = "Z" -> "Bool" [] c = "B" -> "Byte" [] c = "C" -> "Char" [] c = "S" -> "Short"
      [] c = "I" -> "Int" [] c = "J" -> "Long" [] c = "F" -> "Float" [] c = "D" -> "Double"
      [] c = "V" -> "Void" [] c = "*" -> "WildcardStar" [] c = "+" -> "WildcardPlus"
      [] c = "-" -> "WildcardMinus"
PrimitiveChars == CharsOf("ZBCSIJFDV*+-")

TS(t) == [k |-> "TypeSignature", t |-> t]

RECURSIVE parse_typesignature(_)
RECURSIVE parse_type_parameters(_)
RECURSIVE RepeatTypeSignature(_, _)
RECURSIVE parse_type_parameter(_)
RECURSIVE parse_object_identifier(_)

\* repeat(0.., parse_typesignature) and many0(parse_typesignature)
RepeatTypeSignature_next(s, acc, r) ==
    IF r.ok THEN RepeatTypeSignature(r.rest, Append(acc, r.val)) ELSE Ok(acc, s)
RepeatTypeSignature(s, acc) == RepeatTypeSignature_next(s, acc, parse_typesignature(s))

parse_type_parameters_closed(ts, close) == IF close.ok THEN Ok(ts.val, close.rest) ELSE Fail
parse_type_parameters_list(ts) ==
    parse_type_parameters_closed(ts, IF ts.ok THEN one_of(ts.rest, {">"}) ELSE Fail)
parse_type_parameters_opened(open) ==
    parse_type_parameters_list(IF open.ok THEN RepeatTypeSignature(open.rest, <<>>) ELSE Fail)
parse_type_parameters(s) == parse_type_parameters_opened(one_of(s, {"<"}))

parse_type_parameter_typed(ident, ts) ==
    IF ts.ok THEN Ok([ident |-> ident.val, ts |-> ts.val], ts.rest) ELSE Fail
parse_type_parameter_colon(ident, c) ==
    parse_type_parameter_typed(ident, IF c.ok THEN parse_typesignature(c.rest) ELSE Fail)
parse_type_parameter_ident(ident) == parse_type_parameter_colon(ident, one_of(ident.rest, {":"}))
parse_type_parameter(s) == parse_type_parameter_ident(TakeWhile(s, AlphaNumeric \cup {"_"}, 0))

parse_object_identifier_closed(name, targs, suf, semi) ==
    IF semi.ok
    THEN Ok([class_name |-> name.val,
             type_arguments |-> IF targs.ok THEN Some(targs.val) ELSE None,
             suffix |-> IF suf.ok THEN Some(suf.val) ELSE None], semi.rest)
    ELSE Fail
parse_object_identifier_suffix(name, targs, a, suf) ==
    parse_object_identifier_closed(name, targs, suf,
                                   IF name.ok THEN one_of(IF suf.ok THEN suf.rest ELSE a, {";"}) ELSE Fail)
parse_object_identifier_dot(name, targs, a, dot) ==
    parse_object_identifier_suffix(name, targs, a, IF dot.ok THEN TakeUntil(dot.rest, {";"}) ELSE Fail)
parse_object_identifier_after(name, targs, a) == parse_object_identifier_dot(name, targs, a, one_of(a, {"."}))
parse_object_identifier_arguments(name, targs) ==
    parse_object_identifier_after(name, targs, IF targs.ok THEN targs.rest ELSE name.rest)
parse_object_identifier_name(name) ==
    parse_object_identifier_arguments(name, IF name.ok THEN parse_type_parameters(name.rest) ELSE Fail)
parse_object_identifier_opened(l) ==
    parse_object_identifier_name(IF l.ok THEN TakeUntil(l.rest, {";", "<"}) ELSE Fail)
parse_object_identifier(s) == parse_object_identifier_opened(one_of(s, {"L"}))

\* the alternatives of parse_typesignature, in the order of the alt
TypeSignature_array(elem) ==
    IF elem.ok THEN Ok([k |-> "TypeSignature", t |-> "Array", elem |-> elem.val], elem.rest) ELSE Fail
TypeSignature_bracket(br) == TypeSignature_array(IF br.ok THEN parse_typesignature(br.rest) ELSE Fail)
TypeSignature_variableEnd(a, tname, tsemi) ==
    IF tsemi.ok
    THEN Ok([k |-> "TypeSignature", t |-> "TypeVariableSignature", name |-> tname.val], tsemi.rest)
    ELSE TypeSignature_bracket(one_of(a, {"["}))
TypeSignature_variableName(a, tname) ==
    TypeSignature_variableEnd(a, tname, IF tname.ok THEN one_of(tname.rest, {";"}) ELSE Fail)
TypeSignature_variable(a, t) ==
    TypeSignature_variableName(a, IF t.ok THEN TakeUntil(t.rest, {";"}) ELSE Fail)
TypeSignature_object(a, obj) ==
    IF obj.ok THEN Ok([k |-> "TypeSignature", t |-> "Object", o |-> obj.val], obj.rest)
    ELSE TypeSignature_variable(a, one_of(a, {"T"}))
TypeSignature_parameter(a, tp) ==
    IF tp.ok
    THEN Ok([k |-> "TypeSignature", t |-> "TypeParameter", ident |-> tp.val.ident, ts |-> tp.val.ts], tp.rest)
    ELSE TypeSignature_object(a, parse_object_identifier(a))
TypeSignature_parametersRest(a, tps, rest) ==
    IF rest.ok
    THEN Ok([k |-> "TypeSignature", t |-> "TypeParameters", params |-> tps.val, rest |-> rest.val], rest.rest)
    ELSE TypeSignature_parameter(a, parse_type_parameter(a))
TypeSignature_parameters(a, tps) ==
    TypeSignature_parametersRest(a, tps, IF tps.ok THEN parse_typesignature(tps.rest) ELSE Fail)
TypeSignature_primitive(a, prim) ==
    IF prim.ok THEN Ok(TS(Primitive(prim.val)), prim.rest)
    ELSE TypeSignature_parameters(a, parse_type_parameters(a))
TypeSignatureAlt(a) == TypeSignature_primitive(a, one_of(a, PrimitiveChars))

parse_typesignature(s) == ws(TypeSignatureAlt(multispace0(s)))

PrimitiveJni(t) ==
    CASE t = "Bool" -> "Z" [] t = "Byte" -> "B" [] t = "Char" -> "C" [] t = "Short" -> "S"
      [] t = "Int" -> "I" [] t = "Long" -> "J" [] t = "Float" -> "F" [] t = "Double" -> "D"
      [] t = "Void" -> "V" [] t = "WildcardStar" -> "*" [] t = "WildcardPlus" -> "+"
      [] t = "WildcardMinus" -> "-"

RECURSIVE to_jni(_)
RECURSIVE ConcatJni(_, _)
RECURSIVE as_jni_type(_)

\* for p in params { s.push_str(&p.to_jni()) }
ConcatJni(tss, i) == IF i > Len(tss) THEN "" ELSE to_jni(tss[i]) \o ConcatJni(tss, i + 1)

\* ObjectIdentifier::as_jni_type
as_jni_type(o) ==
    "L" \o o.class_name
        \o (IF o.type_arguments.some THEN "<" \o ConcatJni(o.type_arguments.v, 1) \o ">" ELSE "")
        \o (IF o.suffix.some THEN "." \o o.suffix.v ELSE "")
        \o ";"

\* TypeSignature::to_jni
to_jni(ts) ==
    CASE ts.t = "Array" -> "[" \o to_jni(ts.elem)
      [] ts.t = "Object" -> as_jni_type(ts.o)
      [] ts.t = "TypeVariableSignature" -> "T" \o ts.name \o ";"
      [] ts.t = "TypeParameters" -> "<" \o ConcatJni(ts.params, 1) \o ">" \o to_jni(ts.rest)
      [] ts.t = "TypeParameter" -> ts.ident \o ":" \o to_jni(ts.ts)
      [] OTHER -> PrimitiveJni(ts.t)

(***************************************************************************)
(* signature/method_signature.rs, method_ref.rs, field_ref.rs              *)
(***************************************************************************)
parse_arguments_closed(args, close) == IF close.ok THEN Ok(args.val, close.rest) ELSE Fail
parse_arguments_list(args) == parse_arguments_closed(args, IF args.ok THEN one_of(args.rest, {")"}) ELSE Fail)
parse_arguments_opened(open) ==
    parse_arguments_list(IF open.ok THEN RepeatTypeSignature(open.rest, <<>>) ELSE Fail)
parse_arguments(s) == parse_arguments_opened(one_of(s, {"("}))

parse_methodsignature_value(tps, args, result, throws) ==
    IF result.ok
    THEN Ok([type_parameters |-> IF tps.ok THEN Some(tps.val) ELSE None,
             args |-> args.val,
             result |-> result.val,
             throws |-> IF throws.ok THEN Some(throws.val) ELSE None],
            IF throws.ok THEN throws.rest ELSE result.rest)
    ELSE Fail
\* the result type, then the type after an optional '^'
parse_methodsignature_types(tps, args, result, hat) ==
    parse_methodsignature_value(tps, args, result,
        IF hat.ok THEN parse_typesignature(hat.rest) ELSE Fail)
parse_methodsignature_result(tps, args, result) ==
    parse_methodsignature_types(tps, args, result, IF result.ok THEN one_of(result.rest, {"^"}) ELSE Fail)
parse_methodsignature_arguments(tps, args) ==
    parse_methodsignature_result(tps, args, IF args.ok THEN parse_typesignature(args.rest) ELSE Fail)
parse_methodsignature_parameters(s, tps) ==
    parse_methodsignature_arguments(tps, parse_arguments(IF tps.ok THEN tps.rest ELSE s))
parse_methodsignature(s) == parse_methodsignature_parameters(s, parse_type_parameters(s))

\* MethodSignature::to_jni
ms_to_jni(ms) ==
    (IF ms.type_parameters.some THEN "<" \o ConcatJni(ms.type_parameters.v, 1) \o ">" ELSE "")
        \o "(" \o ConcatJni(ms.args, 1) \o ")" \o to_jni(ms.result)
        \o (IF ms.throws.some THEN "^" \o to_jni(ms.throws.v) ELSE "")

\* TypeSignature::from_jni and MethodSignature::from_jni: parse_complete gives
\* the value and the input left over, which the caller drops; an Err panics
from_jni_unwrap(r) == IF r.ok THEN [kind |-> "ok", val |-> r.val] ELSE [kind |-> "panic"]
from_jni(s) == from_jni_unwrap(parse_typesignature(s))
ms_from_jni(s) == from_jni_unwrap(parse_methodsignature(s))

\* take_until("("): everything before the first '(', Err when there is none
parse_method_parameter_signature(s, n, ms) ==
    IF ms.ok THEN Ok([ident |-> Take(s, n), ms |-> ms.val], ms.rest) ELSE Fail
parse_method_parameter_ident(s, n) ==
    parse_method_parameter_signature(s, n, IF n < Len(s) THEN parse_methodsignature(Drop(s, n)) ELSE Fail)
parse_method_parameter(s) == parse_method_parameter_ident(s, SpanNotIn(s, {"("}, 1))

parse_method_ref_param(class, param) ==
    IF param.ok THEN Ok([k |-> "MethodRef", class |-> class.val, param |-> param.val], param.rest) ELSE Fail
parse_method_ref_arrow(class, arrow) ==
    parse_method_ref_param(class, IF arrow.ok THEN parse_method_parameter(arrow.rest) ELSE Fail)
parse_method_ref_class(class) ==
    parse_method_ref_arrow(class, IF class.ok THEN literal(class.rest, "->") ELSE Fail)
parse_method_ref(s) == parse_method_ref_class(parse_typesignature(s))

\* impl Display for MethodRef
FmtMethodRef(m) == to_jni(m.class) \o "->" \o m.param.ident \o ms_to_jni(m.param.ms)

parse_field_ref_param(class, param) ==
    IF param.ok THEN Ok([k |-> "FieldRef", class |-> class.val, param |-> param.val], param.rest) ELSE Fail
parse_field_ref_arrow(class, arrow) ==
    parse_field_ref_param(class, IF arrow.ok THEN parse_type_parameter(arrow.rest) ELSE Fail)
parse_field_ref_class(class) ==
    parse_field_ref_arrow(class, IF class.ok THEN literal(class.rest, "->") ELSE Fail)
parse_field_ref(s) == parse_field_ref_class(parse_object_identifier(s))

\* impl Display for FieldRef
FmtFieldRef(f) == as_jni_type(f.class) \o "->" \o f.param.ident \o ":" \o to_jni(f.param.ts)

(***************************************************************************)
(* lib.rs parse_string_lit and op/dex_op.rs StringOrTypeSig                 *)
(***************************************************************************)
Escapable == {"'", "\"", "t", "b", "n", "r", "f", "u", "\\"}

RECURSIVE TakeEscaped(_, _)
\* take_escaped(none_of(['\\', '"']), '\\', one_of(Escapable)) from position i
TakeEscaped(s, i) ==
    IF i > Len(s) THEN Ok(s, "")
    ELSE IF At(s, i) \notin {"\\", "\""} THEN TakeEscaped(s, i + 1)
    ELSE IF At(s, i) = "\\"
         THEN IF i + 1 <= Len(s) /\ At(s, i + 1) \in Escapable THEN TakeEscaped(s, i + 2) ELSE Fail
    ELSE Ok(Take(s, i - 1), Drop(s, i - 1))

parse_string_lit_closed(body, close) == IF close.ok THEN Ok(body.val, close.rest) ELSE Fail
parse_string_lit_body(body) ==
    parse_string_lit_closed(body, IF body.ok THEN one_of(body.rest, {"\""}) ELSE Fail)
parse_string_lit_escaped(open, esc) ==
    parse_string_lit_body(IF esc.ok THEN esc ELSE IF open.ok THEN Ok("", open.rest) ELSE Fail)
parse_string_lit_opened(open) ==
    parse_string_lit_escaped(open, IF open.ok THEN TakeEscaped(open.rest, 1) ELSE Fail)
parse_string_lit(s) == parse_string_lit_opened(one_of(multispace0(s), {"\""}))

\* A string operand stored with its surrounding quotes.
String_Quoted(str) == [k |-> "String", s |-> "\"" \o str \o "\""]
String(str) == [k |-> "String", s |-> str]
TypeSig(ts) == [k |-> "TypeSig", ts |-> ts]

\* alt((parse_string_lit().map(String), parse_typesignature().map(TypeSig)))
parse_string_or_typesig_signature(ts) == IF ts.ok THEN Ok(TypeSig(ts.val), ts.rest) ELSE Fail
parse_string_or_typesig_string(s, str) ==
    IF str.ok THEN Ok(String(str.val), str.rest)
    ELSE parse_string_or_typesig_signature(parse_typesignature(s))
parse_string_or_typesig(s) == parse_string_or_typesig_string(s, parse_string_lit(s))

\* impl Display for StringOrTypeSig
FmtStringOrTypeSig(v) == IF v.k = "String" THEN v.s ELSE to_jni(v.ts)

\* winnow::ascii::alphanumeric1, kept as a Cow<str>
parse_alphanumeric1_word(r) == IF r.ok THEN Ok([k |-> "str", s |-> r.val], r.rest) ELSE Fail
parse_alphanumeric1(s) == parse_alphanumeric1_word(TakeWhile(s, AlphaNumeric, 1))

(***************************************************************************)
(* op/dex_op.rs: the operand parsers.  Each of them is                      *)
(*   preceded(space1, (operand, comma, operand, ...))                       *)
(* and yields the operands in the order of the text.                        *)
(***************************************************************************)
Operand(s, kind) ==
    CASE kind = "reg" -> parse_register(s)
      [] kind \in {"i8", "i16", "i32", "i64"} -> parse_int_lit(s, kind)
      [] kind = "label" -> parse_label(s)
      [] kind = "list" -> parse_register_list(s)
      [] kind = "range" -> parse_register_range(s)
      [] kind = "method" -> parse_method_ref(s)
      [] kind = "field" -> parse_field_ref(s)
      [] kind = "string" -> parse_string_or_typesig(s)
      [] kind = "type" -> parse_typesignature(s)
      [] kind = "alnum" -> parse_alphanumeric1(s)

RECURSIVE OperandTuple(_, _, _, _)
OperandTuple_following(kinds, i, acc, r, c) ==
    IF c.ok THEN OperandTuple(c.rest, kinds, i + 1, Append(acc, r.val)) ELSE Fail
OperandTuple_operand(kinds, i, acc, r) ==
    IF ~r.ok THEN Fail
    ELSE IF i = Len(kinds) THEN Ok(Append(acc, r.val), r.rest)
    ELSE OperandTuple_following(kinds, i, acc, r, comma(r.rest))
OperandTuple(s, kinds, i, acc) == OperandTuple_operand(kinds, i, acc, Operand(s, kinds[i]))

Operands_spaced(kinds, sp) == IF sp.ok THEN OperandTuple(sp.rest, kinds, 1, <<>>) ELSE Fail
Operands(s, kinds) == Operands_spaced(kinds, space1(s))

parse_invoke(s) == Operands(s, <<"list", "method">>)
parse_one_reg_op(s) == Operands(s, <<"reg">>)
parse_two_reg_op(s) == Operands(s, <<"reg", "reg">>)
\* parse_three_reg_op that takes a missing third register from the second
parse_three_reg_op_Two(r2) == IF r2.ok THEN Ok(<<r2.val[1], r2.val[1], r2.val[2]>>, r2.rest) ELSE Fail
parse_three_reg_op_Three(s, r3) == IF r3.ok THEN r3 ELSE parse_three_reg_op_Two(Operands(s, <<"reg", "reg">>))
parse_three_reg_op_Lenient(s) == parse_three_reg_op_Three(s, Operands(s, <<"reg", "reg", "reg">>))

parse_three_reg_op(s) == Operands(s, <<"reg", "reg", "reg">>)
parse_one_reg_and_literal(s, T) == Operands(s, <<"reg", T>>)
parse_two_reg_and_literal(s, T) == Operands(s, <<"reg", "reg", T>>)
parse_one_reg_and_fieldref(s) == Operands(s, <<"reg", "field">>)
parse_two_reg_and_fieldref(s) == Operands(s, <<"reg", "reg", "field">>)
parse_one_reg_and_string(s) == Operands(s, <<"reg", "string">>)
parse_two_reg_and_string(s) == Operands(s, <<"reg", "reg", "string">>)
parse_one_reg_and_label(s) == Operands(s, <<"reg", "label">>)
parse_two_reg_and_label(s) == Operands(s, <<"reg", "reg", "label">>)
parse_range_and_method(s) == Operands(s, <<"range", "method">>)
parse_goto(s) == Operands(s, <<"label">>)
parse_invoke_polymorphic(s) == Operands(s, <<"list", "method", "alnum">>)
parse_invoke_polymorphic_range(s) == Operands(s, <<"range", "method", "alnum">>)
parse_invoke_custom(s) == Operands(s, <<"list", "alnum">>)
parse_invoke_custom_range(s) == Operands(s, <<"range", "alnum">>)

\* the "filled-new-array" arms wrap the type in StringOrTypeSig::TypeSig
WrapTypeSig(r) == IF r.ok THEN Ok(<<r.val[1], TypeSig(r.val[2])>>, r.rest) ELSE Fail
parse_filled_new_array(s) == WrapTypeSig(Operands(s, <<"list", "type">>))
parse_filled_new_array_range(s) == WrapTypeSig(Operands(s, <<"range", "type">>))

\* value32 / 65536, which rounds toward zero
High16_Truncating(v) == IF v < 0 THEN (v + 65535) \div 65536 ELSE v \div 65536

\* (value32 >> 16) as i16
High16(v) == v \div 65536
\* (value64 >> 48) as i16, on the bit pattern
WideHigh16(bits) ==
    LET n == bits[1] * 4096 + bits[2] * 256 + bits[3] * 16 + bits[4]
    IN IF n >= 32768 THEN n - 65536 ELSE n

parse_const_high16_shifted(r) ==
    IF r.ok THEN Ok(<<r.val[1], IntVal("i16", High16(r.val[2].v))>>, r.rest) ELSE Fail
parse_const_high16(s) == parse_const_high16_shifted(Operands(s, <<"reg", "i32">>))

parse_const_wide_high16_shifted(r) ==
    IF r.ok THEN Ok(<<r.val[1], IntVal("i16", WideHigh16(r.val[2].bits))>>, r.rest) ELSE Fail
parse_const_wide_high16(s) == parse_const_wide_high16_shifted(Operands(s, <<"reg", "i64">>))

(***************************************************************************)
(* op/dex_op.rs parse_dex_op: the arms of the match on the mnemonic, in    *)
(* source order.  arm names the macro or the parser of the arm and args    *)
(* are the macro's arguments after the variant.                            *)
(***************************************************************************)
ParseArms == <<
    [mnemonic |-> "invoke-static", arm |-> "invoke_case", variant |-> "InvokeStatic", args |-> <<>>],
    [mnemonic |-> "invoke-virtual", arm |-> "invoke_case", variant |-> "InvokeVirtual", args |-> <<>>],
    [mnemonic |-> "invoke-super", arm |-> "invoke_case", variant |-> "InvokeSuper", args |-> <<>>],
    [mnemonic |-> "invoke-interface", arm |-> "invoke_case", variant |-> "InvokeInterface", args |-> <<>>],
    [mnemonic |-> "invoke-direct", arm |-> "invoke_case", variant |-> "InvokeDirect", args |-> <<>>],
    [mnemonic |-> "move-result", arm |-> "one_reg_case", variant |-> "MoveResult", args |-> <<"dest">>],
    [mnemonic |-> "move-result-wide", arm |-> "one_reg_case", variant |-> "MoveResultWide", args |-> <<"dest">>],
    [mnemonic |-> "move-result-object", arm |-> "one_reg_case", variant |-> "MoveResultObject", args |-> <<"dest">>],
    [mnemonic |-> "move-exception", arm |-> "one_reg_case", variant |-> "MoveException", args |-> <<"dest">>],
    [mnemonic |-> "return", arm |-> "one_reg_case", variant |-> "Return", args |-> <<"src">>],
    [mnemonic |-> "return-wide", arm |-> "one_reg_case", variant |-> "ReturnWide", args |-> <<"src">>],
    [mnemonic |-> "return-object", arm |-> "one_reg_case", variant |-> "ReturnObject", args |-> <<"src">>],
    [mnemonic |-> "monitor-enter", arm |-> "one_reg_case", variant |-> "MonitorEnter", args |-> <<"src">>],
    [mnemonic |-> "monitor-exit", arm |-> "one_reg_case", variant |-> "MonitorExit", args |-> <<"src">>],
    [mnemonic |-> "throw", arm |-> "one_reg_case", variant |-> "Throw", args |-> <<"src">>],
    [mnemonic |-> "move", arm |-> "two_reg_case", variant |-> "Move", args |-> <<"dest", "src">>],
    [mnemonic |-> "move/from16", arm |-> "two_reg_case", variant |-> "MoveFrom16", args |-> <<"dest", "src">>],
    [mnemonic |-> "move/16", arm |-> "two_reg_case", variant |-> "Move16", args |-> <<"dest", "src">>],
    [mnemonic |-> "move-wide", arm |-> "two_reg_case", variant |-> "MoveWide", args |-> <<"dest", "src">>],
    [mnemonic |-> "move-wide/from16", arm |-> "two_reg_case", variant |-> "MoveWideFrom16", args |-> <<"dest", "src">>],
    [mnemonic |-> "move-wide/16", arm |-> "two_reg_case", variant |-> "MoveWide16", args |-> <<"dest", "src">>],
    [mnemonic |-> "move-object", arm |-> "two_reg_case", variant |-> "MoveObject", args |-> <<"dest", "src">>],
    [mnemonic |-> "move-object/from16", arm |-> "two_reg_case", variant |-> "MoveObjectFrom16", args |-> <<"dest", "src">>],
    [mnemonic |-> "move-object/16", arm |-> "two_reg_case", variant |-> "MoveObject16", args |-> <<"dest", "src">>],
    [mnemonic |-> "array-length", arm |-> "two_reg_case", variant |-> "ArrayLength", args |-> <<"dest", "array">>],
    [mnemonic |-> "int-to-byte", arm |-> "two_reg_case", variant |-> "IntToByte", args |-> <<"dest", "src">>],
    [mnemonic |-> "int-to-char", arm |-> "two_reg_case", variant |-> "IntToChar", args |-> <<"dest", "src">>],
    [mnemonic |-> "int-to-short", arm |-> "two_reg_case", variant |-> "IntToShort", args |-> <<"dest", "src">>],
    [mnemonic |-> "neg-int", arm |-> "two_reg_case", variant |-> "NegInt", args |-> <<"dest", "src">>],
    [mnemonic |-> "not-int", arm |-> "two_reg_case", variant |-> "NotInt", args |-> <<"dest", "src">>],
    [mnemonic |-> "neg-long", arm |-> "two_reg_case", variant |-> "NegLong", args |-> <<"dest", "src">>],
    [mnemonic |-> "not-long", arm |-> "two_reg_case", variant |-> "NotLong", args |-> <<"dest", "src">>],
    [mnemonic |-> "neg-float", arm |-> "two_reg_case", variant |-> "NegFloat", args |-> <<"dest", "src">>],
    [mnemonic |-> "neg-double", arm |-> "two_reg_case", variant |-> "NegDouble", args |-> <<"dest", "src">>],
    [mnemonic |-> "int-to-long", arm |-> "two_reg_case", variant |-> "IntToLong", args |-> <<"dest", "src">>],
    [mnemonic |-> "int-to-float", arm |-> "two_reg_case", variant |-> "IntToFloat", args |-> <<"dest", "src">>],
    [mnemonic |-> "int-to-double", arm |-> "two_reg_case", variant |-> "IntToDouble", args |-> <<"dest", "src">>],
    [mnemonic |-> "long-to-int", arm |-> "two_reg_case", variant |-> "LongToInt", args |-> <<"dest", "src">>],
    [mnemonic |-> "long-to-float", arm |-> "two_reg_case", variant |-> "LongToFloat", args |-> <<"dest", "src">>],
    [mnemonic |-> "long-to-double", arm |-> "two_reg_case", variant |-> "LongToDouble", args |-> <<"dest", "src">>],
    [mnemonic |-> "float-to-int", arm |-> "two_reg_case", variant |-> "FloatToInt", args |-> <<"dest", "src">>],
    [mnemonic |-> "float-to-long", arm |-> "two_reg_case", variant |-> "FloatToLong", args |-> <<"dest", "src">>],
    [mnemonic |-> "float-to-double", arm |-> "two_reg_case", variant |-> "FloatToDouble", args |-> <<"dest", "src">>],
    [mnemonic |-> "double-to-int", arm |-> "two_reg_case", variant |-> "DoubleToInt", args |-> <<"dest", "src">>],
    [mnemonic |-> "double-to-long", arm |-> "two_reg_case", variant |-> "DoubleToLong", args |-> <<"dest", "src">>],
    [mnemonic |-> "double-to-float", arm |-> "two_reg_case", variant |-> "DoubleToFloat", args |-> <<"dest", "src">>],
    [mnemonic |-> "add-int/2addr", arm |-> "two_reg_case", variant |-> "AddInt2Addr", args |-> <<"reg", "src">>],
    [mnemonic |-> "sub-int/2addr", arm |-> "two_reg_case", variant |-> "SubInt2Addr", args |-> <<"reg", "src">>],
    [mnemonic |-> "mul-int/2addr", arm |-> "two_reg_case", variant |-> "MulInt2Addr", args |-> <<"reg", "src">>],
    [mnemonic |-> "div-int/2addr", arm |-> "two_reg_case", variant |-> "DivInt2Addr", args |-> <<"reg", "src">>],
    [mnemonic |-> "rem-int/2addr", arm |-> "two_reg_case", variant |-> "RemInt2Addr", args |-> <<"reg", "src">>],
    [mnemonic |-> "and-int/2addr", arm |-> "two_reg_case", variant |-> "AndInt2Addr", args |-> <<"reg", "src">>],
    [mnemonic |-> "or-int/2addr", arm |-> "two_reg_case", variant |-> "OrInt2Addr", args |-> <<"reg", "src">>],
    [mnemonic |-> "xor-int/2addr", arm |-> "two_reg_case", variant |-> "XorInt2Addr", args |-> <<"reg", "src">>],
    [mnemonic |-> "shl-int/2addr", arm |-> "two_reg_case", variant |-> "ShlInt2Addr", args |-> <<"reg", "src">>],
    [mnemonic |-> "shr-int/2addr", arm |-> "two_reg_case", variant |-> "ShrInt2Addr", args |-> <<"reg", "src">>],
    [mnemonic |-> "ushr-int/2addr", arm |-> "two_reg_case", variant |-> "UshrInt2Addr", args |-> <<"reg", "src">>],
    [mnemonic |-> "add-long/2addr", arm |-> "two_reg_case", variant |-> "AddLong2Addr", args |-> <<"reg", "src">>],
    [mnemonic |-> "sub-long/2addr", arm |-> "two_reg_case", variant |-> "SubLong2Addr", args |-> <<"reg", "src">>],
    [mnemonic |-> "mul-long/2addr", arm |-> "two_reg_case", variant |-> "MulLong2Addr", args |-> <<"reg", "src">>],
    [mnemonic |-> "div-long/2addr", arm |-> "two_reg_case", variant |-> "DivLong2Addr", args |-> <<"reg", "src">>],
    [mnemonic |-> "rem-long/2addr", arm |-> "two_reg_case", variant |-> "RemLong2Addr", args |-> <<"reg", "src">>],
    [mnemonic |-> "and-long/2addr", arm |-> "two_reg_case", variant |-> "AndLong2Addr", args |-> <<"reg", "src">>],
    [mnemonic |-> "or-long/2addr", arm |-> "two_reg_case", variant |-> "OrLong2Addr", args |-> <<"reg", "src">>],
    [mnemonic |-> "xor-long/2addr", arm |-> "two_reg_case", variant |-> "XorLong2Addr", args |-> <<"reg", "src">>],
    [mnemonic |-> "shl-long/2addr", arm |-> "two_reg_case", variant |-> "ShlLong2Addr", args |-> <<"reg", "src">>],
    [mnemonic |-> "shr-long/2addr", arm |-> "two_reg_case", variant |-> "ShrLong2Addr", args |-> <<"reg", "src">>],
    [mnemonic |-> "ushr-long/2addr", arm |-> "two_reg_case", variant |-> "UshrLong2Addr", args |-> <<"reg", "src">>],
    [mnemonic |-> "add-float/2addr", arm |-> "two_reg_case", variant |-> "AddFloat2Addr", args |-> <<"reg", "src">>],
    [mnemonic |-> "sub-float/2addr", arm |-> "two_reg_case", variant |-> "SubFloat2Addr", args |-> <<"reg", "src">>],
    [mnemonic |-> "mul-float/2addr", arm |-> "two_reg_case", variant |-> "MulFloat2Addr", args |-> <<"reg", "src">>],
    [mnemonic |-> "div-float/2addr", arm |-> "two_reg_case", variant |-> "DivFloat2Addr", args |-> <<"reg", "src">>],
    [mnemonic |-> "rem-float/2addr", arm |-> "two_reg_case", variant |-> "RemFloat2Addr", args |-> <<"reg", "src">>],
    [mnemonic |-> "add-double/2addr", arm |-> "two_reg_case", variant |-> "AddDouble2Addr", args |-> <<"reg", "src">>],
    [mnemonic |-> "sub-double/2addr", arm |-> "two_reg_case", variant |-> "SubDouble2Addr", args |-> <<"reg", "src">>],
    [mnemonic |-> "mul-double/2addr", arm |-> "two_reg_case", variant |-> "MulDouble2Addr", args |-> <<"reg", "src">>],
    [mnemonic |-> "div-double/2addr", arm |-> "two_reg_case", variant |-> "DivDouble2Addr", args |-> <<"reg", "src">>],
    [mnemonic |-> "rem-double/2addr", arm |-> "two_reg_case", variant |-> "RemDouble2Addr", args |-> <<"reg", "src">>],
    [mnemonic |-> "aget", arm |-> "three_reg_case", variant |-> "AGet", args |-> <<"dest", "array", "index">>],
    [mnemonic |-> "aget-wide", arm |-> "three_reg_case", variant |-> "AGetWide", args |-> <<"dest", "array", "index">>],
    [mnemonic |-> "aget-object", arm |-> "three_reg_case", variant |-> "AGetObject", args |-> <<"dest", "array", "index">>],
    [mnemonic |-> "aget-boolean", arm |-> "three_reg_case", variant |-> "AGetBoolean", args |-> <<"dest", "array", "index">>],
    [mnemonic |-> "aget-byte", arm |-> "three_reg_case", variant |-> "AGetByte", args |-> <<"dest", "array", "index">>],
    [mnemonic |-> "aget-char", arm |-> "three_reg_case", variant |-> "AGetChar", args |-> <<"dest", "array", "index">>],
    [mnemonic |-> "aget-short", arm |-> "three_reg_case", variant |-> "AGetShort", args |-> <<"dest", "array", "index">>],
    [mnemonic |-> "aput", arm |-> "three_reg_case", variant |-> "APut", args |-> <<"src", "array", "index">>],
    [mnemonic |-> "aput-wide", arm |-> "three_reg_case", variant |-> "APutWide", args |-> <<"src", "array", "index">>],
    [mnemonic |-> "aput-object", arm |-> "three_reg_case", variant |-> "APutObject", args |-> <<"src", "array", "index">>],
    [mnemonic |-> "aput-boolean", arm |-> "three_reg_case", variant |-> "APutBoolean", args |-> <<"src", "array", "index">>],
    [mnemonic |-> "aput-byte", arm |-> "three_reg_case", variant |-> "APutByte", args |-> <<"src", "array", "index">>],
    [mnemonic |-> "aput-char", arm |-> "three_reg_case", variant |-> "APutChar", args |-> <<"src", "array", "index">>],
    [mnemonic |-> "aput-short", arm |-> "three_reg_case", variant |-> "APutShort", args |-> <<"src", "array", "index">>],
    [mnemonic |-> "add-int", arm |-> "three_reg_case", variant |-> "AddInt", args |-> <<"dest", "src1", "src2">>],
    [mnemonic |-> "sub-int", arm |-> "three_reg_case", variant |-> "SubInt", args |-> <<"dest", "src1", "src2">>],
    [mnemonic |-> "mul-int", arm |-> "three_reg_case", variant |-> "MulInt", args |-> <<"dest", "src1", "src2">>],
    [mnemonic |-> "div-int", arm |-> "three_reg_case", variant |-> "DivInt", args |-> <<"dest", "src1", "src2">>],
    [mnemonic |-> "rem-int", arm |-> "three_reg_case", variant |-> "RemInt", args |-> <<"dest", "src1", "src2">>],
    [mnemonic |-> "and-int", arm |-> "three_reg_case", variant |-> "AndInt", args |-> <<"dest", "src1", "src2">>],
    [mnemonic |-> "or-int", arm |-> "three_reg_case", variant |-> "OrInt", args |-> <<"dest", "src1", "src2">>],
    [mnemonic |-> "xor-int", arm |-> "three_reg_case", variant |-> "XorInt", args |-> <<"dest", "src1", "src2">>],
    [mnemonic |-> "shl-int", arm |-> "three_reg_case", variant |-> "ShlInt", args |-> <<"dest", "src1", "src2">>],
    [mnemonic |-> "shr-int", arm |-> "three_reg_case", variant |-> "ShrInt", args |-> <<"dest", "src1", "src2">>],
    [mnemonic |-> "ushr-int", arm |-> "three_reg_case", variant |-> "UshrInt", args |-> <<"dest", "src1", "src2">>],
    [mnemonic |-> "add-long", arm |-> "three_reg_case", variant |-> "AddLong", args |-> <<"dest", "src1", "src2">>],
    [mnemonic |-> "sub-long", arm |-> "three_reg_case", variant |-> "SubLong", args |-> <<"dest", "src1", "src2">>],
    [mnemonic |-> "mul-long", arm |-> "three_reg_case", variant |-> "MulLong", args |-> <<"dest", "src1", "src2">>],
    [mnemonic |-> "div-long", arm |-> "three_reg_case", variant |-> "DivLong", args |-> <<"dest", "src1", "src2">>],
    [mnemonic |-> "rem-long", arm |-> "three_reg_case", variant |-> "RemLong", args |-> <<"dest", "src1", "src2">>],
    [mnemonic |-> "and-long", arm |-> "three_reg_case", variant |-> "AndLong", args |-> <<"dest", "src1", "src2">>],
    [mnemonic |-> "or-long", arm |-> "three_reg_case", variant |-> "OrLong", args |-> <<"dest", "src1", "src2">>],
    [mnemonic |-> "xor-long", arm |-> "three_reg_case", variant |-> "XorLong", args |-> <<"dest", "src1", "src2">>],
    [mnemonic |-> "shl-long", arm |-> "three_reg_case", variant |-> "ShlLong", args |-> <<"dest", "src1", "src2">>],
    [mnemonic |-> "shr-long", arm |-> "three_reg_case", variant |-> "ShrLong", args |-> <<"dest", "src1", "src2">>],
    [mnemonic |-> "ushr-long", arm |-> "three_reg_case", variant |-> "UshrLong", args |-> <<"dest", "src1", "src2">>],
    [mnemonic |-> "add-float", arm |-> "three_reg_case", variant |-> "AddFloat", args |-> <<"dest", "src1", "src2">>],
    [mnemonic |-> "sub-float", arm |-> "three_reg_case", variant |-> "SubFloat", args |-> <<"dest", "src1", "src2">>],
    [mnemonic |-> "mul-float", arm |-> "three_reg_case", variant |-> "MulFloat", args |-> <<"dest", "src1", "src2">>],
    [mnemonic |-> "div-float", arm |-> "three_reg_case", variant |-> "DivFloat", args |-> <<"dest", "src1", "src2">>],
    [mnemonic |-> "rem-float", arm |-> "three_reg_case", variant |-> "RemFloat", args |-> <<"dest", "src1", "src2">>],
    [mnemonic |-> "add-double", arm |-> "three_reg_case", variant |-> "AddDouble", args |-> <<"dest", "src1", "src2">>],
    [mnemonic |-> "sub-double", arm |-> "three_reg_case", variant |-> "SubDouble", args |-> <<"dest", "src1", "src2">>],
    [mnemonic |-> "mul-double", arm |-> "three_reg_case", variant |-> "MulDouble", args |-> <<"dest", "src1", "src2">>],
    [mnemonic |-> "div-double", arm |-> "three_reg_case", variant |-> "DivDouble", args |-> <<"dest", "src1", "src2">>],
    [mnemonic |-> "rem-double", arm |-> "three_reg_case", variant |-> "RemDouble", args |-> <<"dest", "src1", "src2">>],
    [mnemonic |-> "cmpl-float", arm |-> "three_reg_case", variant |-> "CmplFloat", args |-> <<"dest", "src1", "src2">>],
    [mnemonic |-> "cmpg-float", arm |-> "three_reg_case", variant |-> "CmpgFloat", args |-> <<"dest", "src1", "src2">>],
    [mnemonic |-> "cmpl-double", arm |-> "three_reg_case", variant |-> "CmplDouble", args |-> <<"dest", "src1", "src2">>],
    [mnemonic |-> "cmpg-double", arm |-> "three_reg_case", variant |-> "CmpgDouble", args |-> <<"dest", "src1", "src2">>],
    [mnemonic |-> "cmp-long", arm |-> "three_reg_case", variant |-> "CmpLong", args |-> <<"dest", "src1", "src2">>],
    [mnemonic |-> "const", arm |-> "one_reg_lit_case", variant |-> "Const", args |-> <<"dest", "i32">>],
    [mnemonic |-> "const/4", arm |-> "one_reg_lit_case", variant |-> "Const4", args |-> <<"dest", "i8">>],
    [mnemonic |-> "const/16", arm |-> "one_reg_lit_case", variant |-> "Const16", args |-> <<"dest", "i16">>],
    [mnemonic |-> "const-wide", arm |-> "one_reg_lit_case", variant |-> "ConstWide", args |-> <<"dest", "i64">>],
    [mnemonic |-> "const-wide/16", arm |-> "one_reg_lit_case", variant |-> "ConstWide16", args |-> <<"dest", "i16">>],
    [mnemonic |-> "const-wide/32", arm |-> "one_reg_lit_case", variant |-> "ConstWide32", args |-> <<"dest", "i32">>],
    [mnemonic |-> "add-int/lit8", arm |-> "two_reg_lit_case", variant |-> "AddIntLit8", args |-> <<"dest", "src", "i8">>],
    [mnemonic |-> "rsub-int/lit8", arm |-> "two_reg_lit_case", variant |-> "RSubIntLit8", args |-> <<"dest", "src", "i8">>],
    [mnemonic |-> "mul-int/lit8", arm |-> "two_reg_lit_case", variant |-> "MulIntLit8", args |-> <<"dest", "src", "i8">>],
    [mnemonic |-> "div-int/lit8", arm |-> "two_reg_lit_case", variant |-> "DivIntLit8", args |-> <<"dest", "src", "i8">>],
    [mnemonic |-> "rem-int/lit8", arm |-> "two_reg_lit_case", variant |-> "RemIntLit8", args |-> <<"dest", "src", "i8">>],
    [mnemonic |-> "and-int/lit8", arm |-> "two_reg_lit_case", variant |-> "AndIntLit8", args |-> <<"dest", "src", "i8">>],
    [mnemonic |-> "or-int/lit8", arm |-> "two_reg_lit_case", variant |-> "OrIntLit8", args |-> <<"dest", "src", "i8">>],
    [mnemonic |-> "xor-int/lit8", arm |-> "two_reg_lit_case", variant |-> "XorIntLit8", args |-> <<"dest", "src", "i8">>],
    [mnemonic |-> "shl-int/lit8", arm |-> "two_reg_lit_case", variant |-> "ShlIntLit8", args |-> <<"dest", "src", "i8">>],
    [mnemonic |-> "shr-int/lit8", arm |-> "two_reg_lit_case", variant |-> "ShrIntLit8", args |-> <<"dest", "src", "i8">>],
    [mnemonic |-> "ushr-int/lit8", arm |-> "two_reg_lit_case", variant |-> "UshrIntLit8", args |-> <<"dest", "src", "i8">>],
    [mnemonic |-> "add-int/lit16", arm |-> "two_reg_lit_case", variant |-> "AddIntLit16", args |-> <<"dest", "src", "i16">>],
    [mnemonic |-> "rsub-int", arm |-> "two_reg_lit_case", variant |-> "RSubIntLit16", args |-> <<"dest", "src", "i16">>],
    [mnemonic |-> "mul-int/lit16", arm |-> "two_reg_lit_case", variant |-> "MulIntLit16", args |-> <<"dest", "src", "i16">>],
    [mnemonic |-> "div-int/lit16", arm |-> "two_reg_lit_case", variant |-> "DivIntLit16", args |-> <<"dest", "src", "i16">>],
    [mnemonic |-> "rem-int/lit16", arm |-> "two_reg_lit_case", variant |-> "RemIntLit16", args |-> <<"dest", "src", "i16">>],
    [mnemonic |-> "and-int/lit16", arm |-> "two_reg_lit_case", variant |-> "AndIntLit16", args |-> <<"dest", "src", "i16">>],
    [mnemonic |-> "or-int/lit16", arm |-> "two_reg_lit_case", variant |-> "OrIntLit16", args |-> <<"dest", "src", "i16">>],
    [mnemonic |-> "xor-int/lit16", arm |-> "two_reg_lit_case", variant |-> "XorIntLit16", args |-> <<"dest", "src", "i16">>],
    [mnemonic |-> "sget", arm |-> "one_reg_fieldref_case", variant |-> "SGet", args |-> <<"dest">>],
    [mnemonic |-> "sget-wide", arm |-> "one_reg_fieldref_case", variant |-> "SGetWide", args |-> <<"dest">>],
    [mnemonic |-> "sget-object", arm |-> "one_reg_fieldref_case", variant |-> "SGetObject", args |-> <<"dest">>],
    [mnemonic |-> "sget-boolean", arm |-> "one_reg_fieldref_case", variant |-> "SGetBoolean", args |-> <<"dest">>],
    [mnemonic |-> "sget-byte", arm |-> "one_reg_fieldref_case", variant |-> "SGetByte", args |-> <<"dest">>],
    [mnemonic |-> "sget-char", arm |-> "one_reg_fieldref_case", variant |-> "SGetChar", args |-> <<"dest">>],
    [mnemonic |-> "sget-short", arm |-> "one_reg_fieldref_case", variant |-> "SGetShort", args |-> <<"dest">>],
    [mnemonic |-> "sput", arm |-> "one_reg_fieldref_case", variant |-> "SPut", args |-> <<"src">>],
    [mnemonic |-> "sput-wide", arm |-> "one_reg_fieldref_case", variant |-> "SPutWide", args |-> <<"src">>],
    [mnemonic |-> "sput-object", arm |-> "one_reg_fieldref_case", variant |-> "SPutObject", args |-> <<"src">>],
    [mnemonic |-> "sput-boolean", arm |-> "one_reg_fieldref_case", variant |-> "SPutBoolean", args |-> <<"src">>],
    [mnemonic |-> "sput-byte", arm |-> "one_reg_fieldref_case", variant |-> "SPutByte", args |-> <<"src">>],
    [mnemonic |-> "sput-char", arm |-> "one_reg_fieldref_case", variant |-> "SPutChar", args |-> <<"src">>],
    [mnemonic |-> "sput-short", arm |-> "one_reg_fieldref_case", variant |-> "SPutShort", args |-> <<"src">>],
    [mnemonic |-> "iget", arm |-> "two_reg_fieldref_case", variant |-> "IGet", args |-> <<"dest">>],
    [mnemonic |-> "iget-wide", arm |-> "two_reg_fieldref_case", variant |-> "IGetWide", args |-> <<"dest">>],
    [mnemonic |-> "iget-object", arm |-> "two_reg_fieldref_case", variant |-> "IGetObject", args |-> <<"dest">>],
    [mnemonic |-> "iget-boolean", arm |-> "two_reg_fieldref_case", variant |-> "IGetBoolean", args |-> <<"dest">>],
    [mnemonic |-> "iget-byte", arm |-> "two_reg_fieldref_case", variant |-> "IGetByte", args |-> <<"dest">>],
    [mnemonic |-> "iget-char", arm |-> "two_reg_fieldref_case", variant |-> "IGetChar", args |-> <<"dest">>],
    [mnemonic |-> "iget-short", arm |-> "two_reg_fieldref_case", variant |-> "IGetShort", args |-> <<"dest">>],
    [mnemonic |-> "iput", arm |-> "two_reg_fieldref_case", variant |-> "IPut", args |-> <<"src">>],
    [mnemonic |-> "iput-wide", arm |-> "two_reg_fieldref_case", variant |-> "IPutWide", args |-> <<"src">>],
    [mnemonic |-> "iput-object", arm |-> "two_reg_fieldref_case", variant |-> "IPutObject", args |-> <<"src">>],
    [mnemonic |-> "iput-boolean", arm |-> "two_reg_fieldref_case", variant |-> "IPutBoolean", args |-> <<"src">>],
    [mnemonic |-> "iput-byte", arm |-> "two_reg_fieldref_case", variant |-> "IPutByte", args |-> <<"src">>],
    [mnemonic |-> "iput-char", arm |-> "two_reg_fieldref_case", variant |-> "IPutChar", args |-> <<"src">>],
    [mnemonic |-> "iput-short", arm |-> "two_reg_fieldref_case", variant |-> "IPutShort", args |-> <<"src">>],
    [mnemonic |-> "const-string", arm |-> "one_reg_string_case", variant |-> "ConstString", args |-> <<"dest", "value">>],
    [mnemonic |-> "const-string/jumbo", arm |-> "one_reg_string_case", variant |-> "ConstStringJumbo", args |-> <<"dest", "value">>],
    [mnemonic |-> "const-class", arm |-> "one_reg_string_case", variant |-> "ConstClass", args |-> <<"dest", "class">>],
    [mnemonic |-> "check-cast", arm |-> "one_reg_string_case", variant |-> "CheckCast", args |-> <<"dest", "class">>],
    [mnemonic |-> "new-instance", arm |-> "one_reg_string_case", variant |-> "NewInstance", args |-> <<"dest", "class">>],
    [mnemonic |-> "const-method-handle", arm |-> "one_reg_string_case", variant |-> "ConstMethodHandle", args |-> <<"dest", "method_handle">>],
    [mnemonic |-> "const-method-type", arm |-> "one_reg_string_case", variant |-> "ConstMethodType", args |-> <<"dest", "proto">>],
    [mnemonic |-> "instance-of", arm |-> "two_reg_string_case", variant |-> "InstanceOf", args |-> <<"src", "class">>],
    [mnemonic |-> "new-array", arm |-> "two_reg_string_case", variant |-> "NewArray", args |-> <<"size_reg", "class">>],
    [mnemonic |-> "goto", arm |-> "goto", variant |-> "Goto", args |-> <<>>],
    [mnemonic |-> "goto/16", arm |-> "goto", variant |-> "Goto16", args |-> <<>>],
    [mnemonic |-> "goto/32", arm |-> "goto", variant |-> "Goto32", args |-> <<>>],
    [mnemonic |-> "if-eqz", arm |-> "one_reg_label_case", variant |-> "IfEqz", args |-> <<>>],
    [mnemonic |-> "if-nez", arm |-> "one_reg_label_case", variant |-> "IfNez", args |-> <<>>],
    [mnemonic |-> "if-ltz", arm |-> "one_reg_label_case", variant |-> "IfLtz", args |-> <<>>],
    [mnemonic |-> "if-gez", arm |-> "one_reg_label_case", variant |-> "IfGez", args |-> <<>>],
    [mnemonic |-> "if-gtz", arm |-> "one_reg_label_case", variant |-> "IfGtz", args |-> <<>>],
    [mnemonic |-> "if-lez", arm |-> "one_reg_label_case", variant |-> "IfLez", args |-> <<>>],
    [mnemonic |-> "packed-switch", arm |-> "one_reg_label_case", variant |-> "PackedSwitch", args |-> <<>>],
    [mnemonic |-> "sparse-switch", arm |-> "one_reg_label_case", variant |-> "SparseSwitch", args |-> <<>>],
    [mnemonic |-> "fill-array-data", arm |-> "one_reg_label_case", variant |-> "FillArrayData", args |-> <<>>],
    [mnemonic |-> "filled-new-array", arm |-> "filled_new_array", variant |-> "FilledNewArray", args |-> <<>>],
    [mnemonic |-> "filled-new-array/range", arm |-> "filled_new_array_range", variant |-> "FilledNewArrayRange", args |-> <<>>],
    [mnemonic |-> "if-eq", arm |-> "two_reg_label_case", variant |-> "IfEq", args |-> <<>>],
    [mnemonic |-> "if-ne", arm |-> "two_reg_label_case", variant |-> "IfNe", args |-> <<>>],
    [mnemonic |-> "if-lt", arm |-> "two_reg_label_case", variant |-> "IfLt", args |-> <<>>],
    [mnemonic |-> "if-ge", arm |-> "two_reg_label_case", variant |-> "IfGe", args |-> <<>>],
    [mnemonic |-> "if-gt", arm |-> "two_reg_label_case", variant |-> "IfGt", args |-> <<>>],
    [mnemonic |-> "if-le", arm |-> "two_reg_label_case", variant |-> "IfLe", args |-> <<>>],
    [mnemonic |-> "invoke-virtual/range", arm |-> "range_method_case", variant |-> "InvokeVirtualRange", args |-> <<>>],
    [mnemonic |-> "invoke-super/range", arm |-> "range_method_case", variant |-> "InvokeSuperRange", args |-> <<>>],
    [mnemonic |-> "invoke-direct/range", arm |-> "range_method_case", variant |-> "InvokeDirectRange", args |-> <<>>],
    [mnemonic |-> "invoke-static/range", arm |-> "range_method_case", variant |-> "InvokeStaticRange", args |-> <<>>],
    [mnemonic |-> "invoke-interface/range", arm |-> "range_method_case", variant |-> "InvokeInterfaceRange", args |-> <<>>],
    [mnemonic |-> "invoke-polymorphic", arm |-> "invoke_polymorphic", variant |-> "InvokePolymorphic", args |-> <<>>],
    [mnemonic |-> "invoke-polymorphic/range", arm |-> "invoke_polymorphic_range", variant |-> "InvokePolymorphicRange", args |-> <<>>],
    [mnemonic |-> "invoke-custom", arm |-> "invoke_custom", variant |-> "InvokeCustom", args |-> <<>>],
    [mnemonic |-> "invoke-custom/range", arm |-> "invoke_custom_range", variant |-> "InvokeCustomRange", args |-> <<>>],
    [mnemonic |-> "const/high16", arm |-> "const_high16", variant |-> "ConstHigh16", args |-> <<>>],
    [mnemonic |-> "const-wide/high16", arm |-> "const_wide_high16", variant |-> "ConstWideHigh16", args |-> <<>>],
    [mnemonic |-> "nop", arm |-> "unit", variant |-> "Nop", args |-> <<>>],
    [mnemonic |-> "return-void", arm |-> "unit", variant |-> "ReturnVoid", args |-> <<>>]
    >>

\* the operand parser an arm runs
ArmParse(a, s) ==
    CASE a.arm = "invoke_case" -> parse_invoke(s)
      [] a.arm = "one_reg_case" -> parse_one_reg_op(s)
      [] a.arm = "two_reg_case" -> parse_two_reg_op(s)
      [] a.arm = "three_reg_case" -> parse_three_reg_op(s)
      [] a.arm = "one_reg_lit_case" -> parse_one_reg_and_literal(s, a.args[2])
      [] a.arm = "two_reg_lit_case" -> parse_two_reg_and_literal(s, a.args[3])
      [] a.arm = "one_reg_fieldref_case" -> parse_one_reg_and_fieldref(s)
      [] a.arm = "two_reg_fieldref_case" -> parse_two_reg_and_fieldref(s)
      [] a.arm = "one_reg_string_case" -> parse_one_reg_and_string(s)
      [] a.arm = "two_reg_string_case" -> parse_two_reg_and_string(s)
      [] a.arm = "one_reg_label_case" -> parse_one_reg_and_label(s)
      [] a.arm = "two_reg_label_case" -> parse_two_reg_and_label(s)
      [] a.arm = "range_method_case" -> parse_range_and_method(s)
      [] a.arm = "goto" -> parse_goto(s)
      [] a.arm = "filled_new_array" -> parse_filled_new_array(s)
      [] a.arm = "filled_new_array_range" -> parse_filled_new_array_range(s)
      [] a.arm = "invoke_polymorphic" -> parse_invoke_polymorphic(s)
      [] a.arm = "invoke_polymorphic_range" -> parse_invoke_polymorphic_range(s)
      [] a.arm = "invoke_custom" -> parse_invoke_custom(s)
      [] a.arm = "invoke_custom_range" -> parse_invoke_custom_range(s)
      [] a.arm = "const_high16" -> parse_const_high16(s)
      [] a.arm = "const_wide_high16" -> parse_const_wide_high16(s)
      [] a.arm = "unit" -> Ok(<<>>, s)

\* the fields of the variant an arm constructs, in the order of its operands
ArmFields(a) ==
    CASE a.arm = "invoke_case" -> <<"registers", "method">>
      [] a.arm = "one_reg_case" -> <<a.args[1]>>
      [] a.arm = "two_reg_case" -> <<a.args[1], a.args[2]>>
      [] a.arm = "three_reg_case" -> <<a.args[1], a.args[2], a.args[3]>>
      [] a.arm = "one_reg_lit_case" -> <<a.args[1], "value">>
      [] a.arm = "two_reg_lit_case" -> <<a.args[1], a.args[2], "literal">>
      [] a.arm = "one_reg_fieldref_case" -> <<a.args[1], "field">>
      [] a.arm = "two_reg_fieldref_case" -> <<a.args[1], "object", "field">>
      [] a.arm = "one_reg_string_case" -> <<a.args[1], a.args[2]>>
      [] a.arm = "two_reg_string_case" -> <<"dest", a.args[1], a.args[2]>>
      [] a.arm = "one_reg_label_case" -> <<"reg", "offset">>
      [] a.arm = "two_reg_label_case" -> <<"reg1", "reg2", "offset">>
      [] a.arm = "range_method_case" -> <<"range", "method">>
      [] a.arm = "goto" -> <<"offset">>
      [] a.arm = "filled_new_array" -> <<"registers", "class">>
      [] a.arm = "filled_new_array_range" -> <<"registers", "class">>
      [] a.arm = "invoke_polymorphic" -> <<"registers", "method", "proto">>
      [] a.arm = "invoke_polymorphic_range" -> <<"range", "method", "proto">>
      [] a.arm = "invoke_custom" -> <<"registers", "call_site">>
      [] a.arm = "invoke_custom_range" -> <<"range", "call_site">>
      [] a.arm = "const_high16" -> <<"dest", "value">>
      [] a.arm = "const_wide_high16" -> <<"dest", "value">>
      [] a.arm = "unit" -> <<>>

\* a DexOp value: the variant and its named fields
DexOp(variant, names, vals) ==
    [variant |-> variant,
     fields |-> [n \in {names[i] : i \in 1..Len(names)} |-> vals[CHOOSE i \in 1..Len(names) : names[i] = n]]]

MnemonicChars == AlphaNumeric \cup {"-", "/"}

\* take_while(1.., |c| c.is_alphanumeric() || c == '-' || c == '/')
MnemonicToken(s) == TakeWhile(s, MnemonicChars, 1)

\* the arms whose pattern the token starts with
MatchArms_Prefix(op) == {i \in 1..Len(ParseArms) : StartsWith(op, ParseArms[i].mnemonic)}

\* the arms whose pattern equals the token; none: the catch-all arm
MatchArms(op) == {i \in 1..Len(ParseArms) : ParseArms[i].mnemonic = op}

\* Result of parse_dex_op: kind "ok" with the value and the remaining input,
\* kind "err" for Err(_), kind "panic" when the call panics.
parse_dex_op_built(a, r) ==
    IF r.ok THEN [kind |-> "ok", op |-> DexOp(a.variant, ArmFields(a), r.val), rest |-> r.rest]
    ELSE [kind |-> "err"]
parse_dex_op_arm(a, rest) == parse_dex_op_built(a, ArmParse(a, rest))
parse_dex_op_matched(op, arms) ==
    IF arms = {} THEN [kind |-> "panic"]
    ELSE parse_dex_op_arm(ParseArms[CHOOSE i \in arms : \A j \in arms : i <= j], op.rest)
parse_dex_op_token(op) == IF ~op.ok THEN [kind |-> "err"] ELSE parse_dex_op_matched(op, MatchArms(op.val))
parse_dex_op(s) == parse_dex_op_token(MnemonicToken(s))

(***************************************************************************)
(* op/dex_op.rs impl Display for DexOp: the format string of every arm,    *)
(* interpreted as std::fmt does.                                            *)
(***************************************************************************)
DisplayFmt == [
    ConstString |-> "const-string {dest}, \"{value}\"",
    ConstStringJumbo |-> "const-string/jumbo {dest}, \"{value}\"",
    Nop |-> "nop",
    Move |-> "move {dest}, {src}",
    MoveFrom16 |-> "move/from16 {dest}, {src}",
    Move16 |-> "move/16 {dest} , {src}",
    MoveWide |-> "move-wide {dest}, {src}",
    MoveWideFrom16 |-> "move-wide/from16 {dest}, {src}",
    MoveWide16 |-> "move-wide/16 {dest} , {src}",
    MoveObject |-> "move-object {dest}, {src}",
    MoveObjectFrom16 |-> "move-object/from16 {dest}, {src}",
    MoveObject16 |-> "move-object/16 {dest} , {src}",
    MoveResult |-> "move-result {dest}",
    MoveResultWide |-> "move-result-wide {dest}",
    MoveResultObject |-> "move-result-object {dest}",
    MoveException |-> "move-exception {dest}",
    ReturnVoid |-> "return-void",
    Return |-> "return {src}",
    ReturnWide |-> "return-wide {src}",
    ReturnObject |-> "return-object {src}",
    Const4 |-> "const/4 {dest}, {value}",
    Const16 |-> "const/16 {dest}, {value}",
    Const |-> "const {dest}, {value}",
    ConstHigh16 |-> "const/high16 {dest}, 0x{value:0x}0000",
    ConstWide16 |-> "const-wide/16 {dest}, {value}",
    ConstWide32 |-> "const-wide/32 {dest}, {value}",
    ConstWide |-> "const-wide {dest}, 0x{value:0x}L",
    ConstWideHigh16 |-> "const-wide/high16 {dest}, 0x{value:0x}000000000000L",
    ConstClass |-> "const-class {dest}, {class}",
    MonitorEnter |-> "monitor-enter {src}",
    MonitorExit |-> "monitor-exit {src}",
    CheckCast |-> "check-cast {dest}, {class}",
    InstanceOf |-> "instance-of {dest}, {src}, {class}",
    ArrayLength |-> "array-length {dest}, {array}",
    NewInstance |-> "new-instance {dest}, {class}",
    NewArray |-> "new-array {dest}, {size_reg}, {class}",
    FilledNewArray |-> "filled-new-array {{{}}}, {}",
    FilledNewArrayRange |-> "filled-new-array/range {registers}, {class}",
    FillArrayData |-> "fill-array-data {reg}, {offset}",
    Throw |-> "throw {src}",
    Goto |-> "goto {offset}",
    Goto16 |-> "goto/16 {offset}",
    Goto32 |-> "goto/32 {offset}",
    PackedSwitch |-> "packed-switch {reg}, {offset}",
    SparseSwitch |-> "sparse-switch {reg}, {offset}",
    CmplFloat |-> "cmpl-float {dest}, {src1}, {src2}",
    CmpgFloat |-> "cmpg-float {dest}, {src1}, {src2}",
    CmplDouble |-> "cmpl-double {dest}, {src1}, {src2}",
    CmpgDouble |-> "cmpg-double {dest}, {src1}, {src2}",
    CmpLong |-> "cmp-long {dest}, {src1}, {src2}",
    AGet |-> "aget {dest}, {array}, {index}",
    AGetWide |-> "aget-wide {dest}, {array}, {index}",
    AGetObject |-> "aget-object {dest}, {array}, {index}",
    AGetBoolean |-> "aget-boolean {dest}, {array}, {index}",
    AGetByte |-> "aget-byte {dest}, {array}, {index}",
    AGetChar |-> "aget-char {dest}, {array}, {index}",
    AGetShort |-> "aget-short {dest}, {array}, {index}",
    APut |-> "aput {src}, {array}, {index}",
    APutWide |-> "aput-wide {src}, {array}, {index}",
    APutObject |-> "aput-object {src}, {array}, {index}",
    APutBoolean |-> "aput-boolean {src}, {array}, {index}",
    APutByte |-> "aput-byte {src}, {array}, {index}",
    APutChar |-> "aput-char {src}, {array}, {index}",
    APutShort |-> "aput-short {src}, {array}, {index}",
    IGet |-> "iget {dest}, {object}, {field}",
    IGetWide |-> "iget-wide {dest}, {object}, {field}",
    IGetObject |-> "iget-object {dest}, {object}, {field}",
    IGetBoolean |-> "iget-boolean {dest}, {object}, {field}",
    IGetByte |-> "iget-byte {dest}, {object}, {field}",
    IGetChar |-> "iget-char {dest}, {object}, {field}",
    IGetShort |-> "iget-short {dest}, {object}, {field}",
    IPut |-> "iput {src}, {object}, {field}",
    IPutWide |-> "iput-wide {src}, {object}, {field}",
    IPutObject |-> "iput-object {src}, {object}, {field}",
    IPutBoolean |-> "iput-boolean {src}, {object}, {field}",
    IPutByte |-> "iput-byte {src}, {object}, {field}",
    IPutChar |-> "iput-char {src}, {object}, {field}",
    IPutShort |-> "iput-short {src}, {object}, {field}",
    SGet |-> "sget {dest}, {field}",
    SGetWide |-> "sget-wide {dest}, {field}",
    SGetObject |-> "sget-object {dest}, {field}",
    SGetBoolean |-> "sget-boolean {dest}, {field}",
    SGetByte |-> "sget-byte {dest}, {field}",
    SGetChar |-> "sget-char {dest}, {field}",
    SGetShort |-> "sget-short {dest}, {field}",
    SPut |-> "sput {src}, {field}",
    SPutWide |-> "sput-wide {src}, {field}",
    SPutObject |-> "sput-object {src}, {field}",
    SPutBoolean |-> "sput-boolean {src}, {field}",
    SPutByte |-> "sput-byte {src}, {field}",
    SPutChar |-> "sput-char {src}, {field}",
    SPutShort |-> "sput-short {src}, {field}",
    InvokeVirtual |-> "invoke-virtual {{{regs}}}, {method}",
    InvokeSuper |-> "invoke-super {{{regs}}}, {method}",
    InvokeInterface |-> "invoke-interface {{{regs}}}, {method}",
    InvokeVirtualRange |-> "invoke-virtual/range {range}, {method}",
    InvokeSuperRange |-> "invoke-super/range {range}, {method}",
    InvokeDirectRange |-> "invoke-direct/range {range}, {method}",
    InvokeStaticRange |-> "invoke-static/range {range}, {method}",
    InvokeInterfaceRange |-> "invoke-interface/range {range}, {method}",
    AddInt |-> "add-int {dest}, {src1}, {src2}",
    SubInt |-> "sub-int {dest}, {src1}, {src2}",
    MulInt |-> "mul-int {dest}, {src1}, {src2}",
    DivInt |-> "div-int {dest}, {src1}, {src2}",
    RemInt |-> "rem-int {dest}, {src1}, {src2}",
    AndInt |-> "and-int {dest}, {src1}, {src2}",
    OrInt |-> "or-int {dest}, {src1}, {src2}",
    XorInt |-> "xor-int {dest}, {src1}, {src2}",
    ShlInt |-> "shl-int {dest}, {src1}, {src2}",
    ShrInt |-> "shr-int {dest}, {src1}, {src2}",
    UshrInt |-> "ushr-int {dest}, {src1}, {src2}",
    AddLong |-> "add-long {dest}, {src1}, {src2}",
    SubLong |-> "sub-long {dest}, {src1}, {src2}",
    MulLong |-> "mul-long {dest}, {src1}, {src2}",
    DivLong |-> "div-long {dest}, {src1}, {src2}",
    RemLong |-> "rem-long {dest}, {src1}, {src2}",
    AndLong |-> "and-long {dest}, {src1}, {src2}",
    OrLong |-> "or-long {dest}, {src1}, {src2}",
    XorLong |-> "xor-long {dest}, {src1}, {src2}",
    ShlLong |-> "shl-long {dest}, {src1}, {src2}",
    ShrLong |-> "shr-long {dest}, {src1}, {src2}",
    UshrLong |-> "ushr-long {dest}, {src1}, {src2}",
    AddFloat |-> "add-float {dest}, {src1}, {src2}",
    SubFloat |-> "sub-float {dest}, {src1}, {src2}",
    MulFloat |-> "mul-float {dest}, {src1}, {src2}",
    DivFloat |-> "div-float {dest}, {src1}, {src2}",
    RemFloat |-> "rem-float {dest}, {src1}, {src2}",
    AddDouble |-> "add-double {dest}, {src1}, {src2}",
    SubDouble |-> "sub-double {dest}, {src1}, {src2}",
    MulDouble |-> "mul-double {dest}, {src1}, {src2}",
    DivDouble |-> "div-double {dest}, {src1}, {src2}",
    RemDouble |-> "rem-double {dest}, {src1}, {src2}",
    AddInt2Addr |-> "add-int/2addr {reg}, {src}",
    SubInt2Addr |-> "sub-int/2addr {reg}, {src}",
    MulInt2Addr |-> "mul-int/2addr {reg}, {src}",
    DivInt2Addr |-> "div-int/2addr {reg}, {src}",
    RemInt2Addr |-> "rem-int/2addr {reg}, {src}",
    AndInt2Addr |-> "and-int/2addr {reg}, {src}",
    OrInt2Addr |-> "or-int/2addr {reg}, {src}",
    XorInt2Addr |-> "xor-int/2addr {reg}, {src}",
    ShlInt2Addr |-> "shl-int/2addr {reg}, {src}",
    ShrInt2Addr |-> "shr-int/2addr {reg}, {src}",
    UshrInt2Addr |-> "ushr-int/2addr {reg}, {src}",
    AddLong2Addr |-> "add-long/2addr {reg}, {src}",
    SubLong2Addr |-> "sub-long/2addr {reg}, {src}",
    MulLong2Addr |-> "mul-long/2addr {reg}, {src}",
    DivLong2Addr |-> "div-long/2addr {reg}, {src}",
    RemLong2Addr |-> "rem-long/2addr {reg}, {src}",
    AndLong2Addr |-> "and-long/2addr {reg}, {src}",
    OrLong2Addr |-> "or-long/2addr {reg}, {src}",
    XorLong2Addr |-> "xor-long/2addr {reg}, {src}",
    ShlLong2Addr |-> "shl-long/2addr {reg}, {src}",
    ShrLong2Addr |-> "shr-long/2addr {reg}, {src}",
    UshrLong2Addr |-> "ushr-long/2addr {reg}, {src}",
    AddFloat2Addr |-> "add-float/2addr {reg}, {src}",
    SubFloat2Addr |-> "sub-float/2addr {reg}, {src}",
    MulFloat2Addr |-> "mul-float/2addr {reg}, {src}",
    DivFloat2Addr |-> "div-float/2addr {reg}, {src}",
    RemFloat2Addr |-> "rem-float/2addr {reg}, {src}",
    AddDouble2Addr |-> "add-double/2addr {reg}, {src}",
    SubDouble2Addr |-> "sub-double/2addr {reg}, {src}",
    MulDouble2Addr |-> "mul-double/2addr {reg}, {src}",
    DivDouble2Addr |-> "div-double/2addr {reg}, {src}",
    RemDouble2Addr |-> "rem-double/2addr {reg}, {src}",
    InvokePolymorphic |-> "invoke-polymorphic {{{regs}}}, {method}, {proto}",
    InvokePolymorphicRange |-> "invoke-polymorphic/range {range}, {method}, {proto}",
    InvokeCustom |-> "invoke-custom {{{regs}}}, {call_site}",
    InvokeCustomRange |-> "invoke-custom/range {range}, {call_site}",
    ConstMethodHandle |-> "const-method-handle {dest}, {method_handle}",
    ConstMethodType |-> "const-method-type {dest}, {proto}",
    IfEq |-> "if-eq {reg1}, {reg2}, {offset}",
    IfNe |-> "if-ne {reg1}, {reg2}, {offset}",
    IfLt |-> "if-lt {reg1}, {reg2}, {offset}",
    IfGe |-> "if-ge {reg1}, {reg2}, {offset}",
    IfGt |-> "if-gt {reg1}, {reg2}, {offset}",
    IfLe |-> "if-le {reg1}, {reg2}, {offset}",
    IfEqz |-> "if-eqz {reg}, {offset}",
    IfNez |-> "if-nez {reg}, {offset}",
    IfLtz |-> "if-ltz {reg}, {offset}",
    IfGez |-> "if-gez {reg}, {offset}",
    IfGtz |-> "if-gtz {reg}, {offset}",
    IfLez |-> "if-lez {reg}, {offset}",
    InvokeDirect |-> "invoke-direct {{{regs}}}, {method}",
    InvokeStatic |-> "invoke-static {{{regs}}}, {method}",
    NegInt |-> "neg-int {dest}, {src}",
    NotInt |-> "not-int {dest}, {src}",
    NegLong |-> "neg-long {dest}, {src}",
    NotLong |-> "not-long {dest}, {src}",
    NegFloat |-> "neg-float {dest}, {src}",
    NegDouble |-> "neg-double {dest}, {src}",
    IntToLong |-> "int-to-long {dest}, {src}",
    IntToFloat |-> "int-to-float {dest}, {src}",
    IntToDouble |-> "int-to-double {dest}, {src}",
    LongToInt |-> "long-to-int {dest}, {src}",
    LongToFloat |-> "long-to-float {dest}, {src}",
    LongToDouble |-> "long-to-double {dest}, {src}",
    FloatToInt |-> "float-to-int {dest}, {src}",
    FloatToLong |-> "float-to-long {dest}, {src}",
    FloatToDouble |-> "float-to-double {dest}, {src}",
    DoubleToInt |-> "double-to-int {dest}, {src}",
    DoubleToLong |-> "double-to-long {dest}, {src}",
    DoubleToFloat |-> "double-to-float {dest}, {src}",
    IntToByte |-> "int-to-byte {dest}, {src}",
    IntToChar |-> "int-to-char {dest}, {src}",
    IntToShort |-> "int-to-short {dest}, {src}",
    AddIntLit16 |-> "add-int/lit16 {dest}, {src}, {literal}",
    RSubIntLit16 |-> "rsub-int {dest}, {src}, {literal}",
    MulIntLit16 |-> "mul-int/lit16 {dest}, {src}, {literal}",
    DivIntLit16 |-> "div-int/lit16 {dest}, {src}, {literal}",
    RemIntLit16 |-> "rem-int/lit16 {dest}, {src}, {literal}",
    AndIntLit16 |-> "and-int/lit16 {dest}, {src}, {literal}",
    OrIntLit16 |-> "or-int/lit16 {dest}, {src}, {literal}",
    XorIntLit16 |-> "xor-int/lit16 {dest}, {src}, {literal}",
    AddIntLit8 |-> "add-int/lit8 {dest}, {src}, {literal}",
    RSubIntLit8 |-> "rsub-int/lit8 {dest}, {src}, {literal}",
    MulIntLit8 |-> "mul-int/lit8 {dest}, {src}, {literal}",
    DivIntLit8 |-> "div-int/lit8 {dest}, {src}, {literal}",
    RemIntLit8 |-> "rem-int/lit8 {dest}, {src}, {literal}",
    AndIntLit8 |-> "and-int/lit8 {dest}, {src}, {literal}",
    OrIntLit8 |-> "or-int/lit8 {dest}, {src}, {literal}",
    XorIntLit8 |-> "xor-int/lit8 {dest}, {src}, {literal}",
    ShlIntLit8 |-> "shl-int/lit8 {dest}, {src}, {literal}",
    ShrIntLit8 |-> "shr-int/lit8 {dest}, {src}, {literal}",
    UshrIntLit8 |-> "ushr-int/lit8 {dest}, {src}, {literal}"
    ]

\* positional arguments of the one arm that has them
DisplayArgs(variant) == IF variant = "FilledNewArray" THEN <<"regs", "class">> ELSE <<>>

\* one argument of a format string, under the format spec after the colon;
\* the spec "0x" is the flag 0 without a width and the type x
FmtValue(v, spec) ==
    CASE v.k = "Register" -> FmtRegister(v)
      [] v.k = "Label" -> FmtLabel(v)
      [] v.k = "RegisterRange" -> FmtRegisterRange(v)
      [] v.k \in {"String", "TypeSig"} -> FmtStringOrTypeSig(v)
      [] v.k = "MethodRef" -> FmtMethodRef(v)
      [] v.k = "FieldRef" -> FmtFieldRef(v)
      [] v.k = "str" -> v.s
      [] v.k = "i64" /\ spec = "0x" -> HexOfBits(v.bits)
      [] v.k = "i16" /\ spec = "0x" -> HexOfI16(v.v)
      [] v.k \in {"i8", "i16", "i32"} /\ spec = "" -> FmtDec(v.v)

\* the argument a name denotes: a field of the variant, or the local regs
FmtArg(fields, name, spec) ==
    IF name = "regs" THEN JoinRegisters(fields["registers"].regs, 1)
    ELSE FmtValue(fields[name], spec)

RECURSIVE FormatFrom(_, _, _, _, _)
\* write!(f, fmt, ...) from position i of fmt; n counts the {} seen so far
FormatFrom_argument(fmt, fields, pos, n, close, name, spec) ==
    FmtArg(fields, IF name = "" THEN pos[n + 1] ELSE name, spec)
        \o FormatFrom(fmt, fields, pos, close + 1, IF name = "" THEN n + 1 ELSE n)
FormatFrom_named(fmt, fields, pos, n, close, inner, nameLen) ==
    FormatFrom_argument(fmt, fields, pos, n, close, Take(inner, nameLen), Drop(inner, nameLen + 1))
FormatFrom_braces(fmt, fields, pos, n, close, inner) ==
    FormatFrom_named(fmt, fields, pos, n, close, inner, SpanNotIn(inner, {":"}, 1))
FormatFrom_placeholder(fmt, fields, pos, i, n, close) ==
    FormatFrom_braces(fmt, fields, pos, n, close, SubSeq(fmt, i + 1, close - 1))
FormatFrom_literal(fmt, fields, pos, i, n, c, step) == c \o FormatFrom(fmt, fields, pos, i + step, n)
FormatFrom_SlashDropped(fmt, fields, pos, i, n) ==
    IF i > Len(fmt) THEN ""
    ELSE IF At(fmt, i) = "/" THEN FormatFrom(fmt, fields, pos, i + 1, n)
    ELSE IF At(fmt, i) = "{" /\ ~(i < Len(fmt) /\ At(fmt, i + 1) = "{")
         THEN FormatFrom_placeholder(fmt, fields, pos, i, n, i + SpanNotIn(Drop(fmt, i), {"}"}, 1) + 1)
    ELSE FormatFrom_literal(fmt, fields, pos, i, n, At(fmt, i),
                            IF i < Len(fmt) /\ SubSeq(fmt, i, i + 1) \in {"{{", "}}"} THEN 2 ELSE 1)
FormatFrom(fmt, fields, pos, i, n) ==
    IF i > Len(fmt) THEN ""
    ELSE IF At(fmt, i) = "{" /\ ~(i < Len(fmt) /\ At(fmt, i + 1) = "{")
         THEN FormatFrom_placeholder(fmt, fields, pos, i, n, i + SpanNotIn(Drop(fmt, i), {"}"}, 1) + 1)
    ELSE FormatFrom_literal(fmt, fields, pos, i, n, At(fmt, i),
                            IF i < Len(fmt) /\ SubSeq(fmt, i, i + 1) \in {"{{", "}}"} THEN 2 ELSE 1)

\* format!("{op}"): kind "ok" with the text, kind "panic" for the Unused arm
Display(op) ==
    IF op.variant = "Unused" THEN [kind |-> "panic"]
    ELSE [kind |-> "ok", text |-> FormatFrom(DisplayFmt[op.variant], op.fields, DisplayArgs(op.variant), 1, 0)]

(***************************************************************************)
(* The parsers of the directives and of the class document are built from  *)
(* the combinators of winnow and nom.  A parser is written here as the     *)
(* term the source writes, and Run applies a term to an input.  A call     *)
(* that panics yields Panic, which every combinator hands on unchanged.    *)
(***************************************************************************)
Panic == [ok |-> FALSE, panic |-> TRUE]

Literal(t) == [p |-> "literal", t |-> t]
OneOf(cs) == [p |-> "one_of", cs |-> cs]
\* take_while(min.., |c| c in cls)
TakeWhileIn(cls, min) == [p |-> "take_while", cls |-> cls, min |-> min]
\* take_while(|c| c not in cls), take_till(0.., |c| c in cls)
TakeTill(cls) == [p |-> "take_till", cls |-> cls]
Ws(g) == [p |-> "ws", g |-> g]
\* a tuple of parsers; pick = 0 keeps every value, pick = n keeps the n-th
Tuple(gs, pick) == [p |-> "tuple", gs |-> gs, pick |-> pick]
Sequence(gs) == Tuple(gs, 0)
Preceded(a, b) == Tuple(<<a, b>>, 2)
Terminated(a, b) == Tuple(<<a, b>>, 1)
Delimited(a, b, c) == Tuple(<<a, b, c>>, 2)
Opt(g) == [p |-> "opt", g |-> g]
\* repeat(0.., g) and many0(g)
Repeat(g) == [p |-> "repeat", g |-> g]
\* separated(0.., g, sep)
Separated(g, sep) == [p |-> "separated", g |-> g, sep |-> sep]
Alt(gs) == [p |-> "alt", gs |-> gs]
\* g.map(f), where f is named by the value it builds
Map(g, f) == [p |-> "map", g |-> g, f |-> f]
\* one of the parsers defined above as an operator of this module
Leaf(kind) == [p |-> "leaf", kind |-> kind]
\* a parser function of the source, by name
Call(name) == [p |-> "call", name |-> name]

\* parse_dex_op as a parser of the combinators
LeafDexOp(r) ==
    CASE r.kind = "ok" -> Ok(r.op, r.rest)
      [] r.kind = "err" -> Fail
      [] r.kind = "panic" -> Panic

RunLeaf(kind, s) ==
    CASE kind = "label" -> parse_label(s)
      [] kind \in {"u32", "i32", "i64"} -> parse_int_lit(s, kind)
      [] kind = "dex_op" -> LeafDexOp(parse_dex_op(s))
      [] kind = "object" -> parse_object_identifier(s)
      [] kind = "typesig" -> parse_typesignature(s)
      [] kind = "type_parameter" -> parse_type_parameter(s)
      [] kind = "method_parameter" -> parse_method_parameter(s)
      [] kind = "reg" -> parse_register(s)
      [] kind = "string_lit" -> parse_string_lit(s)
      [] kind = "field_ref" -> parse_field_ref(s)
      [] kind = "alphanumeric1" -> TakeWhile(s, AlphaNumeric, 1)

(***************************************************************************)
(* op/mod.rs: the values of the directives                                  *)
(***************************************************************************)
TryRange(start, end) == [start |-> start, end |-> end]

\* the nibbles a value keeps under `as i8`, `as i16`, `as i32` and `as u32`
LowBits(bits, n) == SubSeq(bits, Len(bits) - n + 1, Len(bits))

\* one element of .array-data: the i64 value under its postfix, or under the
\* width of the header when it has none
ArrayDataElement(width, e) ==
    IF e[2].some
    THEN CASE e[2].v = "t" -> [t |-> "Byte", bits |-> LowBits(e[1].bits, 2)]
           [] e[2].v = "s" -> [t |-> "Short", bits |-> LowBits(e[1].bits, 4)]
           [] e[2].v = "l" -> [t |-> "Long", bits |-> e[1].bits]
           [] e[2].v = "f" -> [t |-> "Float", bits |-> LowBits(e[1].bits, 8)]
           [] e[2].v = "d" -> [t |-> "Double", bits |-> e[1].bits]
    ELSE CASE width.bits = <<0, 0, 0, 0, 0, 0, 0, 1>> -> [t |-> "Byte", bits |-> LowBits(e[1].bits, 2)]
           [] width.bits = <<0, 0, 0, 0, 0, 0, 0, 2>> -> [t |-> "Short", bits |-> LowBits(e[1].bits, 4)]
           [] width.bits = <<0, 0, 0, 0, 0, 0, 0, 4>> -> [t |-> "Int", bits |-> LowBits(e[1].bits, 8)]
           [] width.bits = <<0, 0, 0, 0, 0, 0, 0, 8>> -> [t |-> "Long", bits |-> e[1].bits]
           [] OTHER -> [t |-> "Int", bits |-> LowBits(e[1].bits, 8)]

RECURSIVE ArrayDataElements(_, _, _)
ArrayDataElements(width, es, i) ==
    IF i > Len(es) THEN <<>> ELSE <<ArrayDataElement(width, es[i])>> \o ArrayDataElements(width, es, i + 1)

(***************************************************************************)
(* modifier.rs and annotation.rs: the literals and the values they stand    *)
(* for, in the order of the alternatives                                     *)
(***************************************************************************)
ModifierLiterals ==
    <<"public", "protected", "private", "static", "final", "abstract", "interface", "synthetic", "transient",
      "volatile", "synchronized", "native", "varargs", "annotation", "enum", "strict", "bridge", "constructor">>

Modifiers ==
    <<"Public", "Protected", "Private", "Static", "Final", "Abstract", "Interface", "Synthetic", "Transient",
      "Volatile", "Synchronized", "Native", "Varargs", "Annotation", "Enum", "Strict", "Bridge", "Constructor">>

\* literal(text).value(Modifier::X) of parse_modifiers
ModifierOfLiteral ==
    [l \in {ModifierLiterals[i] : i \in 1..Len(ModifierLiterals)} |->
        Modifiers[CHOOSE i \in 1..Len(ModifierLiterals) : ModifierLiterals[i] = l]]

\* Modifier::to_str
to_str(m) ==
    IF m = "DeclaredSynchronized" THEN "synchronized"
    ELSE ModifierLiterals[CHOOSE i \in 1..Len(Modifiers) : Modifiers[i] = m]

\* impl FromStr for Modifier: the arms of the match, in their order
FromStrArms ==
    <<<<"public", "Public">>, <<"protected", "Protected">>, <<"private", "Private">>, <<"static", "Static">>,
      <<"final", "Final">>, <<"abstract", "Abstract">>, <<"interface", "Interface">>, <<"synthetic", "Synthetic">>,
      <<"transient", "Transient">>, <<"volatile", "Volatile">>, <<"synchronized", "Synchronized">>,
      <<"native", "Native">>, <<"varargs", "Varargs">>, <<"annotation", "Annotation">>, <<"enum", "Enum">>,
      <<"strict", "Static">>, <<"bridge", "Bridge">>, <<"constructor", "Constructor">>>>

\* Modifier::from_str: Ok of the first arm whose pattern is s, Err without one
from_str(s) ==
    IF \E i \in 1..Len(FromStrArms) : FromStrArms[i][1] = s
    THEN [ok |-> TRUE, val |-> FromStrArms[CHOOSE i \in 1..Len(FromStrArms) : FromStrArms[i][1] = s][2]]
    ELSE [ok |-> FALSE]

RECURSIVE write_modifiers_from(_, _)
write_modifiers_from(mods, i) ==
    IF i > Len(mods) THEN "" ELSE to_str(mods[i]) \o " " \o write_modifiers_from(mods, i + 1)

write_modifiers(mods) == write_modifiers_from(mods, 1)

VisibilityOfLiteral ==
    [l \in {"build", "runtime", "system"} |->
        CASE l = "build" -> "Build" [] l = "runtime" -> "Runtime" [] l = "system" -> "System"]

\* AnnotationVisibility::to_str
visibility_to_str(v) == CASE v = "Build" -> "build" [] v = "Runtime" -> "runtime" [] v = "System" -> "system"

(***************************************************************************)
(* The values the parsers build with map                                    *)
(***************************************************************************)
Build(f, v) ==
    CASE f = "TryRange" -> TryRange(v[1], v[2])
      [] f = "CatchDirective::Catch" -> [k |-> "Catch", exception |-> v[1], try_range |-> v[2], handler |-> v[3]]
      [] f = "CatchDirective::CatchAll" -> [k |-> "CatchAll", try_range |-> v[1], handler |-> v[2]]
      [] f = "ArrayDataDirective" ->
            [k |-> "ArrayData", width |-> v[1], elements |-> ArrayDataElements(v[1], v[2], 1)]
      [] f = "PackedSwitchDirective" -> [k |-> "PackedSwitch", first_key |-> v[1], targets |-> v[2]]
      [] f = "SparseSwitchEntry" -> [key |-> v[1], target |-> v[2]]
      [] f = "SparseSwitchDirective" -> [k |-> "SparseSwitch", entries |-> v]
      [] f = "Op::Label" -> [k |-> "Op::Label", label |-> v]
      [] f = "Op::Line" -> [k |-> "Op::Line", line |-> v]
      [] f = "Op::Op" -> [k |-> "Op::Op", op |-> v]
      [] f = "Op::Catch" -> [k |-> "Op::Catch", catch |-> v]
      [] f = "Op::ArrayData" -> [k |-> "Op::ArrayData", data |-> v]
      [] f = "Op::PackedSwitch" -> [k |-> "Op::PackedSwitch", switch |-> v]
      [] f = "Op::SparseSwitch" -> [k |-> "Op::SparseSwitch", switch |-> v]
      [] f = "Modifier" -> ModifierOfLiteral[v]
      [] f = "AnnotationVisibility" -> VisibilityOfLiteral[v]
      [] f = "Annotation" ->
            [visibility |-> IF v[1].some THEN v[1].v ELSE "System", annotation_type |-> v[2], elements |-> v[3]]
      [] f = "AnnotationElement" -> [name |-> v[1], value |-> v[2]]
      [] f = "AnnotationValue::SubAnnotation" -> [k |-> "SubAnnotation", a |-> v]
      [] f = "AnnotationValue::Array" -> [k |-> "Array", a |-> v]
      [] f = "AnnotationValue::String" -> [k |-> "String", s |-> v]
      [] f = "AnnotationValue::Enum" -> [k |-> "Enum", f |-> v]
      [] f = "AnnotationValue::Any" -> [k |-> "Any", s |-> v]
      [] f = "Field" -> [modifiers |-> v[1], param |-> v[2], initial_value |-> v[3], annotations |-> v[4]]
      [] f = "Param" ->
            [register |-> v[1], name |-> v[2], annotations |-> IF v[3].some THEN v[3].v ELSE <<>>]
      [] f = "Method" ->
            [modifiers |-> v[1], param |-> v[2], locals |-> v[3], params |-> v[4], annotations |-> v[5],
             ops |-> v[7]]
      [] f = "Class" ->
            [name |-> v[1][2], modifiers |-> v[1][1], source |-> v[3], super_class |-> v[2],
             implements |-> v[4], annotations |-> v[5], fields |-> v[6], methods |-> v[7]]

(***************************************************************************)
(* op/mod.rs: the parsers of the directives and parse_op                    *)
(***************************************************************************)
ParserOf(name) ==
    CASE name = "parse_try_range" ->
            Map(Delimited(Ws(OneOf({"{"})),
                          Sequence(<<Terminated(Ws(Leaf("label")), Literal("..")), Ws(Leaf("label"))>>),
                          Ws(OneOf({"}"}))),
                "TryRange")
      [] name = "parse_catch_directive" ->
            Alt(<<Map(Preceded(Literal(".catch"),
                               Sequence(<<Ws(Leaf("object")), Ws(Call("parse_try_range")), Ws(Leaf("label"))>>)),
                      "CatchDirective::Catch"),
                  Map(Preceded(Literal(".catchall"),
                               Sequence(<<Ws(Call("parse_try_range")), Ws(Leaf("label"))>>)),
                      "CatchDirective::CatchAll")>>)
      [] name = "parse_array_data_directive" ->
            Map(Delimited(Ws(Literal(".array-data")),
                          Sequence(<<Ws(Leaf("u32")),
                                     Repeat(Ws(Sequence(<<Leaf("i64"),
                                                          Opt(Alt(<<OneOf({"t"}), OneOf({"s"}), OneOf({"l"}),
                                                                    OneOf({"f"}), OneOf({"d"})>>))>>)))>>),
                          Ws(Literal(".end array-data"))),
                "ArrayDataDirective")
      [] name = "parse_packed_switch_directive" ->
            Map(Delimited(Ws(Literal(".packed-switch")),
                          Sequence(<<Ws(Leaf("i32")), Repeat(Ws(Leaf("label")))>>),
                          Ws(Literal(".end packed-switch"))),
                "PackedSwitchDirective")
      [] name = "parse_sparse_switch_entry" ->
            Map(Sequence(<<Terminated(Ws(Leaf("i32")), Literal("->")), Ws(Leaf("label"))>>),
                "SparseSwitchEntry")
      [] name = "parse_sparse_switch_directive" ->
            Map(Delimited(Ws(Literal(".sparse-switch")),
                          Repeat(Call("parse_sparse_switch_entry")),
                          Ws(Literal(".end sparse-switch"))),
                "SparseSwitchDirective")
      [] name = "parse_op" ->
            Alt(<<Map(Ws(Leaf("label")), "Op::Label"),
                  Map(Preceded(Ws(Literal(".line")), Ws(Leaf("u32"))), "Op::Line"),
                  Map(Ws(Leaf("dex_op")), "Op::Op"),
                  Map(Call("parse_catch_directive"), "Op::Catch"),
                  Map(Call("parse_array_data_directive"), "Op::ArrayData"),
                  Map(Call("parse_packed_switch_directive"), "Op::PackedSwitch"),
                  Map(Call("parse_sparse_switch_directive"), "Op::SparseSwitch")>>)
      [] name = "parse_modifiers" ->
            Repeat(Ws(Alt([i \in 1..Len(ModifierLiterals) |-> Map(Literal(ModifierLiterals[i]), "Modifier")])))
      [] name = "parse_visibility" ->
            Ws(Alt(<<Map(Literal("build"), "AnnotationVisibility"), Map(Literal("runtime"), "AnnotationVisibility"),
                     Map(Literal("system"), "AnnotationVisibility")>>))
      [] name = "parse_annotation" ->
            Map(Delimited(Ws(Alt(<<Literal(".annotation"), Literal(".subannotation")>>)),
                          Sequence(<<Opt(Call("parse_visibility")), Leaf("typesig"),
                                     Repeat(Call("parse_annotation_element"))>>),
                          Ws(Alt(<<Literal(".end annotation"), Literal(".end subannotation")>>))),
                "Annotation")
      [] name = "parse_annotation_element" ->
            Map(Sequence(<<Terminated(Ws(Leaf("alphanumeric1")), Ws(OneOf({"="}))),
                           Call("parse_annotation_value")>>),
                "AnnotationElement")
      [] name = "parse_annotation_value" ->
            Alt(<<Map(Call("parse_annotation"), "AnnotationValue::SubAnnotation"),
                  Map(Delimited(Ws(OneOf({"{"})),
                                Separated(Call("parse_annotation_value"), Ws(OneOf({","}))),
                                Ws(OneOf({"}"}))),
                      "AnnotationValue::Array"),
                  Map(Leaf("string_lit"), "AnnotationValue::String"),
                  Map(Preceded(Ws(Literal(".enum")), Leaf("field_ref")), "AnnotationValue::Enum"),
                  Map(TakeTill({",", "}", "\n"}), "AnnotationValue::Any")>>)
      [] name = "parse_field" ->
            Map(Delimited(Ws(Literal(".field")),
                          Sequence(<<Call("parse_modifiers"), Leaf("type_parameter"),
                                     Opt(Preceded(Ws(OneOf({"="})), TakeTill({"\n"}))),
                                     Repeat(Call("parse_annotation"))>>),
                          Opt(Ws(Literal(".end field")))),
                "Field")
      [] name = "parse_param" ->
            Map(Preceded(Ws(Literal(".param")),
                         Sequence(<<Leaf("reg"),
                                    Opt(Preceded(Ws(OneOf({","})), Ws(Leaf("string_lit")))),
                                    Opt(Terminated(Repeat(Call("parse_annotation")), Ws(Literal(".end param"))))>>)),
                "Param")
      [] name = "parse_method" ->
            Map(Delimited(Ws(Literal(".method")),
                          Sequence(<<Call("parse_modifiers"), Leaf("method_parameter"),
                                     Opt(Preceded(Ws(Literal(".locals")), Ws(Leaf("u32")))),
                                     Repeat(Call("parse_param")), Repeat(Call("parse_annotation")),
                                     Opt(Ws(Literal(".prologue"))), Repeat(Call("parse_op"))>>),
                          Ws(Literal(".end method"))),
                "Method")
      [] name = "parse_class" ->
            Map(Sequence(<<Preceded(Ws(Literal(".class")),
                                    Sequence(<<Call("parse_modifiers"), Ws(Leaf("object"))>>)),
                           Preceded(Ws(Literal(".super")), Ws(Leaf("object"))),
                           Opt(Preceded(Ws(Literal(".source")), Ws(Leaf("string_lit")))),
                           Repeat(Preceded(Ws(Literal(".implements")), Ws(Leaf("object")))),
                           Repeat(Call("parse_annotation")), Repeat(Call("parse_field")),
                           Repeat(Call("parse_method"))>>),
                "Class")

(***************************************************************************)
(* The combinators                                                          *)
(***************************************************************************)
RECURSIVE Run(_, _)
RECURSIVE RunTuple(_, _, _, _, _)
RECURSIVE RunRepeat(_, _, _)
RECURSIVE RunSeparated(_, _, _, _)
RECURSIVE RunAlt(_, _, _)

\* ws(inner) after inner has run on the input behind the leading whitespace
RunWs(r) == IF r.ok THEN Ok(r.val, wsTail(r.rest)) ELSE r

RunTuple_item(gs, pick, i, acc, r) ==
    IF r.ok THEN RunTuple(gs, pick, r.rest, i + 1, Append(acc, r.val)) ELSE r
RunTuple(gs, pick, s, i, acc) ==
    IF i > Len(gs) THEN Ok(IF pick = 0 THEN acc ELSE acc[pick], s)
    ELSE RunTuple_item(gs, pick, i, acc, Run(gs[i], s))

RunOpt(s, r) == IF r.ok THEN Ok(Some(r.val), r.rest) ELSE IF r = Panic THEN r ELSE Ok(None, s)

\* the loop stops, and keeps its input, at the first element that fails
RunRepeat_item_Newest(g, s, acc, r) ==
    IF r.ok THEN RunRepeat(g, r.rest, <<r.val>> \o acc) ELSE IF r = Panic THEN r ELSE Ok(acc, s)
RunRepeat_item(g, s, acc, r) ==
    IF r.ok THEN RunRepeat(g, r.rest, Append(acc, r.val)) ELSE IF r = Panic THEN r ELSE Ok(acc, s)
RunRepeat(g, s, acc) == RunRepeat_item(g, s, acc, Run(g, s))

\* after the first element: a separator and an element, or neither
RunSeparated_item(g, sep, s, acc, r) ==
    IF r.ok THEN RunSeparated(g, sep, r.rest, Append(acc, r.val)) ELSE IF r = Panic THEN r ELSE Ok(acc, s)
RunSeparated_separator(g, sep, s, acc, c) ==
    IF c.ok THEN RunSeparated_item(g, sep, s, acc, Run(g, c.rest)) ELSE IF c = Panic THEN c ELSE Ok(acc, s)
RunSeparated(g, sep, s, acc) == RunSeparated_separator(g, sep, s, acc, Run(sep, s))
RunSeparated_first(g, sep, s, r) ==
    IF r.ok THEN RunSeparated(g, sep, r.rest, <<r.val>>) ELSE IF r = Panic THEN r ELSE Ok(<<>>, s)

RunAlt_item(gs, s, i, r) == IF r.ok \/ r = Panic THEN r ELSE RunAlt(gs, s, i + 1)
RunAlt(gs, s, i) == IF i > Len(gs) THEN Fail ELSE RunAlt_item(gs, s, i, Run(gs[i], s))

RunMap(f, r) == IF r.ok THEN Ok(Build(f, r.val), r.rest) ELSE r

Run(g, s) ==
    CASE g.p = "literal" -> literal(s, g.t)
      [] g.p = "one_of" -> one_of(s, g.cs)
      [] g.p = "take_while" -> TakeWhile(s, g.cls, g.min)
      [] g.p = "take_till" -> TakeUntil(s, g.cls)
      [] g.p = "ws" -> RunWs(Run(g.g, multispace0(s)))
      [] g.p = "tuple" -> RunTuple(g.gs, g.pick, s, 1, <<>>)
      [] g.p = "opt" -> RunOpt(s, Run(g.g, s))
      [] g.p = "repeat" -> RunRepeat(g.g, s, <<>>)
      [] g.p = "separated" -> RunSeparated_first(g.g, g.sep, s, Run(g.g, s))
      [] g.p = "alt" -> RunAlt(g.gs, s, 1)
      [] g.p = "map" -> RunMap(g.f, Run(g.g, s))
      [] g.p = "leaf" -> RunLeaf(g.kind, s)
      [] g.p = "call" -> Run(ParserOf(g.name), s)

parse_op(s) == Run(ParserOf("parse_op"), s)

parse_class(s) == Run(ParserOf("parse_class"), s)

(***************************************************************************)
(* Formatting of the numbers of the directives                              *)
(***************************************************************************)
RECURSIVE DivTen(_, _, _)
\* the nibbles of bits \div 10 from position i on, the remainder appended
DivTen(bits, i, rem) ==
    IF i > Len(bits) THEN <<rem>>
    ELSE <<(rem * 16 + bits[i]) \div 10>> \o DivTen(bits, i + 1, (rem * 16 + bits[i]) % 10)

RECURSIVE DecOfBits(_)
\* "{}" of an unsigned value held as nibbles
DecOfBits_digit(q) ==
    (IF \A i \in 1..(Len(q) - 1) : q[i] = 0 THEN "" ELSE DecOfBits(SubSeq(q, 1, Len(q) - 1)))
    \o At(HexLower, q[Len(q)] + 1)
DecOfBits(bits) == DecOfBits_digit(DivTen(bits, 1, 0))

\* four hex digits of a value in 0..65535
Hex4(n) ==
    At(HexLower, (n \div 4096) + 1) \o At(HexLower, ((n \div 256) % 16) + 1)
    \o At(HexLower, ((n \div 16) % 16) + 1) \o At(HexLower, (n % 16) + 1)

\* "{:#x}" of an i32: the two's complement of a negative value
HexOfI32(v) == "0x" \o (IF v >= 0 THEN HexOfNat(v) ELSE HexOfNat((v \div 65536) % 65536) \o Hex4(v % 65536))

(***************************************************************************)
(* op/mod.rs: Display of the directives                                     *)
(***************************************************************************)
FmtTryRange(r) == "{" \o FmtLabel(r.start) \o " .. " \o FmtLabel(r.end) \o "}"

FmtCatchDirective(c) ==
    IF c.k = "Catch"
    THEN ".catch " \o as_jni_type(c.exception) \o " " \o FmtTryRange(c.try_range) \o " " \o FmtLabel(c.handler)
    ELSE ".catchall " \o FmtTryRange(c.try_range) \o " " \o FmtLabel(c.handler)

FmtArrayDataElement(e) ==
    "0x" \o HexOfBits(e.bits)
    \o CASE e.t = "Byte" -> "t" [] e.t = "Short" -> "s" [] e.t = "Int" -> "" [] e.t = "Long" -> "l"
         [] e.t = "Float" -> "f" [] e.t = "Double" -> "d"

RECURSIVE FmtArrayDataChunks(_, _)
\* chunks(4): four elements to a line, each followed by a blank
FmtArrayDataChunks(es, i) ==
    IF i > Len(es) THEN ""
    ELSE (IF i % 4 = 1 THEN "    " ELSE "") \o FmtArrayDataElement(es[i]) \o " "
         \o (IF i % 4 = 0 \/ i = Len(es) THEN "\n" ELSE "") \o FmtArrayDataChunks(es, i + 1)

FmtArrayDataDirective(d) ==
    ".array-data 0x" \o HexOfBits(d.width.bits) \o "\n" \o FmtArrayDataChunks(d.elements, 1) \o ".end array-data"

RECURSIVE FmtTargets(_, _)
FmtTargets(ls, i) == IF i > Len(ls) THEN "" ELSE "    " \o FmtLabel(ls[i]) \o "\n" \o FmtTargets(ls, i + 1)

FmtPackedSwitchDirective(d) ==
    ".packed-switch " \o HexOfI32(d.first_key.v) \o "\n" \o FmtTargets(d.targets, 1) \o ".end packed-switch"

RECURSIVE FmtEntries(_, _)
FmtEntries(es, i) ==
    IF i > Len(es) THEN ""
    ELSE "    " \o HexOfI32(es[i].key.v) \o " -> " \o FmtLabel(es[i].target) \o "\n" \o FmtEntries(es, i + 1)

FmtSparseSwitchDirective(d) == ".sparse-switch\n" \o FmtEntries(d.entries, 1) \o ".end sparse-switch"

(***************************************************************************)
(* annotation.rs, param.rs, method.rs, class.rs: the writers                *)
(***************************************************************************)
RECURSIVE write_annotation(_, _, _)
RECURSIVE write_annotation_value(_, _, _, _)
RECURSIVE write_annotation_elements(_, _, _, _, _)
RECURSIVE write_annotation_array(_, _, _, _, _)

AnnotationIndent(subannotation, indented) ==
    IF indented /\ subannotation THEN "        " ELSE IF indented \/ subannotation THEN "    " ELSE ""

write_annotation(ann, subannotation, indented) ==
    (IF subannotation THEN ".subannotation "
     ELSE AnnotationIndent(subannotation, indented) \o ".annotation " \o visibility_to_str(ann.visibility) \o " ")
    \o to_jni(ann.annotation_type) \o "\n"
    \o write_annotation_elements(ann.elements, 1, indented, AnnotationIndent(subannotation, indented), "    ")
    \o AnnotationIndent(subannotation, indented)
    \o (IF subannotation THEN ".end subannotation" ELSE ".end annotation") \o "\n"

write_annotation_elements(es, i, indented, indent, inset) ==
    IF i > Len(es) THEN ""
    ELSE indent \o inset \o es[i].name \o " = " \o write_annotation_value(es[i].value, indented, indent, inset)
         \o write_annotation_elements(es, i + 1, indented, indent, inset)

write_annotation_array(a, i, indented, indent, inset) ==
    IF i > Len(a) THEN ""
    ELSE indent \o inset \o inset \o write_annotation_value(a[i], indented, indent, inset)
         \o (IF i < Len(a) THEN "," ELSE "") \o "\n" \o write_annotation_array(a, i + 1, indented, indent, inset)

write_annotation_value(v, indented, indent, inset) ==
    CASE v.k = "Array" -> "{\n" \o write_annotation_array(v.a, 1, indented, indent, inset) \o indent \o inset \o "}\n"
      [] v.k = "SubAnnotation" -> write_annotation(v.a, TRUE, indented)
      [] v.k = "Enum" ->
            ".enum " \o as_jni_type(v.f.class) \o "->" \o v.f.param.ident \o ":" \o to_jni(v.f.param.ts) \o "\n"
      [] v.k = "String" -> "\"" \o v.s \o "\"\n"
      [] v.k = "Any" -> v.s \o "\n"

RECURSIVE write_annotations(_, _, _, _)
\* the annotations of a list, each followed by sep
write_annotations(as, i, indented, sep) ==
    IF i > Len(as) THEN ""
    ELSE write_annotation(as[i], FALSE, indented) \o sep \o write_annotations(as, i + 1, indented, sep)

write_param(param) ==
    ".param " \o FmtRegister(param.register)
    \o (IF param.name.some THEN ", \"" \o param.name.v \o "\"" ELSE "")
    \o (IF Len(param.annotations) > 0
        THEN "\n" \o write_annotations(param.annotations, 1, TRUE, "") \o ".end param" ELSE "")

RECURSIVE write_params(_, _)
write_params(ps, i) ==
    IF i > Len(ps) THEN "" ELSE "    " \o write_param(ps[i]) \o "\n" \o write_params(ps, i + 1)

\* one item of a method body as write_method formats it; a parsed method
\* holds no DexOp::Unused, the one variant whose Display panics
FmtOp(op) ==
    CASE op.k = "Op::Line" -> ".line " \o DecOfBits(op.line.bits)
      [] op.k = "Op::Label" -> FmtLabel(op.label)
      [] op.k = "Op::Op" -> Display(op.op).text
      [] op.k = "Op::Catch" -> FmtCatchDirective(op.catch)
      [] op.k = "Op::ArrayData" -> FmtArrayDataDirective(op.data)
      [] op.k = "Op::PackedSwitch" -> FmtPackedSwitchDirective(op.switch)
      [] op.k = "Op::SparseSwitch" -> FmtSparseSwitchDirective(op.switch)

RECURSIVE write_ops(_, _)
write_ops(ops, i) == IF i > Len(ops) THEN "" ELSE "    " \o FmtOp(ops[i]) \o "\n" \o write_ops(ops, i + 1)

write_method(method) ==
    ".method " \o write_modifiers(method.modifiers) \o method.param.ident \o ms_to_jni(method.param.ms) \o "\n"
    \o (IF Len(method.ops) > 0 /\ method.locals.some
        THEN "    .locals " \o DecOfBits(method.locals.v.bits) \o "\n" ELSE "")
    \o write_params(method.params, 1)
    \o write_annotations(method.annotations, 1, TRUE, "")
    \o write_ops(method.ops, 1)
    \o ".end method\n\n"

RECURSIVE write_methods(_, _)
write_methods(ms, i) == IF i > Len(ms) THEN "" ELSE write_method(ms[i]) \o write_methods(ms, i + 1)

RECURSIVE write_implements(_, _)
write_implements(is, i) ==
    IF i > Len(is) THEN "" ELSE ".implements " \o as_jni_type(is[i]) \o "\n" \o write_implements(is, i + 1)

RECURSIVE write_fields(_, _)
write_fields(fs, i) ==
    IF i > Len(fs) THEN ""
    ELSE ".field " \o write_modifiers(fs[i].modifiers) \o fs[i].param.ident \o ":" \o to_jni(fs[i].param.ts)
         \o (IF fs[i].initial_value.some THEN " = " \o fs[i].initial_value.v ELSE "") \o "\n"
         \o (IF Len(fs[i].annotations) > 0
             THEN write_annotations(fs[i].annotations, 1, TRUE, "") \o ".end field\n" ELSE "")
         \o "\n" \o write_fields(fs, i + 1)

write_class(dex) ==
    ".class " \o write_modifiers(dex.modifiers) \o as_jni_type(dex.name) \o "\n"
    \o ".super " \o as_jni_type(dex.super_class) \o "\n"
    \o (IF dex.source.some THEN ".source \"" \o dex.source.v \o "\"\n" ELSE "")
    \o (IF Len(dex.implements) > 0 THEN "\n# interfaces\n" \o write_implements(dex.implements, 1) ELSE "")
    \o (IF Len(dex.annotations) > 0 THEN "\n# annotations\n" \o write_annotations(dex.annotations, 1, FALSE, "\n")
        ELSE "")
    \o (IF Len(dex.fields) > 0 THEN "\n# fields\n" \o write_fields(dex.fields, 1) ELSE "")
    \o (IF Len(dex.methods) > 0 THEN "\n# methods\n" \o write_methods(dex.methods, 1) ELSE "")

(***************************************************************************)
(* Bounds of the inputs                                                     *)
(***************************************************************************)
\* register indices and literal values are taken within this distance of
\* the ends of their ranges
Window == 2
\* an operand text is preceded by at most this many blanks
MaxPad == 1

Blanks(n) == SubSeq("        ", 1, n)

(***************************************************************************)
(* Inputs of parse_register: an optional run of blanks, a prefix, a digit  *)
(* run written from the index n, and what follows the register.            *)
(***************************************************************************)
RegisterIndexes ==
    (0..Window) \cup ((U16Max - Window)..(U16Max + Window + 1)) \cup {9, 10, 99, 100, 255, 256, 9999, 10000, 99999, 655350}
RegisterPrefixes == {"v", "p", "V", "P", "r", "x", "", "-", ":", "{"}
RegisterTails == {"", ", v1", " # c", "\n"}

RegisterInputs ==
    {[job |-> "register", pad |-> pad, prefix |-> c, n |-> n, zeros |-> z, tail |-> t,
      text |-> Blanks(pad) \o c \o z \o FmtDec(n) \o t] :
        pad \in 0..MaxPad, c \in RegisterPrefixes, n \in RegisterIndexes, z \in {"", "0"}, t \in RegisterTails}

(***************************************************************************)
(* Inputs of parse_int_lit::<T>: a literal written from its value v in     *)
(* decimal or in hex, for the widths whose values are integers of the      *)
(* model, and literals given as text with the expected outcome for the     *)
(* values beyond them.                                                      *)
(***************************************************************************)
RECURSIVE HexOfNonPos(_)
\* hex digits of -v, for v <= 0
HexOfNonPos(v) ==
    LET d == (16 - (v % 16)) % 16
        q == (v + d) \div 16
    IN (IF q = 0 THEN "" ELSE HexOfNonPos(q)) \o At(HexLower, d + 1)

HexMagnitude(v) == IF v < 0 THEN HexOfNonPos(v) ELSE HexOfNonPos(-v)

LiteralText(v, form) ==
    CASE form = "dec" -> FmtDec(v)
      [] form = "hex" -> (IF v < 0 THEN "-" ELSE "") \o "0x" \o HexMagnitude(v)
      [] form = "HEX" -> (IF v < 0 THEN "-" ELSE "") \o "0X" \o HexMagnitude(v)
      [] form = "hex0" -> (IF v < 0 THEN "-" ELSE "") \o "0x00" \o HexMagnitude(v)

LiteralForms == {"dec", "hex", "HEX", "hex0"}
LiteralSuffixes == {"", "L"}
LiteralTails == {"", "\n", ", v1"}

\* the values around the ends of T's range and around zero; beyond the ends
\* only where the model's integers reach
LiteralValues(T) ==
    IF T = "i32"
    THEN {MinOf(T) + d : d \in 0..Window} \cup ((-Window)..Window) \cup {MaxOf(T) - d : d \in 0..Window}
         \cup {-65536, 65535, 65536, 1065353216}
    ELSE ((MinOf(T) - Window - 1)..(MinOf(T) + Window)) \cup ((-Window)..Window)
         \cup ((MaxOf(T) - Window)..(MaxOf(T) + Window + 1))

WrittenLiteralsOf(T) ==
    {[job |-> "literal", T |-> T, text |-> LiteralText(v, f) \o x \o t, digits |-> LiteralText(v, f),
      inrange |-> (MinOf(T) <= v /\ v <= MaxOf(T)), v |-> v] :
        v \in LiteralValues(T), f \in LiteralForms, x \in LiteralSuffixes, t \in LiteralTails}

WrittenLiterals == WrittenLiteralsOf("i8") \cup WrittenLiteralsOf("i16") \cup WrittenLiteralsOf("i32")

RECURSIVE BitsOfHex(_, _)
\* the nibbles a run of hex digits denotes, one per digit
BitsOfHex(h, i) == IF i > Len(h) THEN <<>> ELSE <<DigitVal(At(h, i))>> \o BitsOfHex(h, i + 1)

\* literals of the values that are no integer of the model: the text, and
\* the 64-bit two's complement pattern of the value when it lies in i64
WideLiterals == {
    <<"0", "0000000000000000">>,
    <<"-0", "0000000000000000">>,
    <<"1", "0000000000000001">>,
    <<"-1", "ffffffffffffffff">>,
    <<"-0x1", "ffffffffffffffff">>,
    <<"10", "000000000000000a">>,
    <<"0x3f800000", "000000003f800000">>,
    <<"2147483648", "0000000080000000">>,
    <<"-2147483649", "ffffffff7fffffff">>,
    <<"0xffffffff", "00000000ffffffff">>,
    <<"0x123456789abcdef0", "123456789abcdef0">>,
    <<"-0x123456789abcdef", "fedcba9876543211">>,
    <<"0x3ff0000000000000", "3ff0000000000000">>,
    <<"0x7fffffffffffffff", "7fffffffffffffff">>,
    <<"9223372036854775807", "7fffffffffffffff">>,
    <<"0X7FFFFFFFFFFFFFFF", "7fffffffffffffff">>,
    <<"-0x8000000000000000", "8000000000000000">>,
    <<"-9223372036854775808", "8000000000000000">>,
    <<"-0x7fffffffffffffff", "8000000000000001">>,
    <<"0x8000000000000000", "">>,
    <<"9223372036854775808", "">>,
    <<"-0x8000000000000001", "">>,
    <<"-9223372036854775809", "">>,
    <<"0xffffffffffffffff", "">>,
    <<"0x10000000000000000", "">>,
    <<"18446744073709551616", "">>,
    <<"99999999999999999999", "">>
    }

\* whether a pattern of 16 nibbles is the sign extension of a 32-bit value
FitsI32(h) ==
    \/ (SubSeq(h, 1, 8) = "00000000" /\ DigitVal(At(h, 9)) < 8)
    \/ (SubSeq(h, 1, 8) = "ffffffff" /\ DigitVal(At(h, 9)) >= 8)

GivenLiterals ==
    {[job |-> "literal", T |-> "i64", text |-> w[1] \o x \o t, digits |-> w[1],
      inrange |-> (w[2] # ""), bits |-> BitsOfHex(w[2], 1)] :
        w \in WideLiterals, x \in LiteralSuffixes, t \in LiteralTails}
    \cup
    {[job |-> "literal", T |-> "i32", text |-> w[1] \o x \o t, digits |-> w[1],
      inrange |-> FALSE, v |-> 0] :
        w \in {w \in WideLiterals : w[2] = "" \/ ~FitsI32(w[2])}, x \in LiteralSuffixes, t \in LiteralTails}

LiteralInputs == WrittenLiterals \cup GivenLiterals

(***************************************************************************)
(* Inputs of parse_dex_op: a mnemonic, operand texts joined by ", " and a  *)
(* tail.  Every arm of the dispatcher is written with every choice of its  *)
(* operand samples; lines with an operand too few, and lines whose first   *)
(* token is no mnemonic, are written as well.                               *)
(***************************************************************************)
RegisterSamples ==
    {[text |-> FmtRegister(r), val |-> r] : r \in {Local(0), Parameter(1)}}

\* the literals an instruction is written with: the ends of the range, the
\* values around zero and the first value beyond each end
InstructionLiteralValues(T) ==
    {MinOf(T), -1, 0, 1, MaxOf(T)} \cup (IF T = "i32" THEN {} ELSE {MinOf(T) - 1, MaxOf(T) + 1})

LiteralSamples(T) ==
    IF T = "i64"
    THEN {[text |-> i.text, lit |-> i] :
            i \in {i \in GivenLiterals : i.T = "i64" /\ i.text \in {i.digits, i.digits \o "L"}}}
    ELSE {[text |-> i.text, lit |-> i] :
            i \in {i \in LiteralInputs : /\ i.T = T /\ i.text = i.digits
                                         /\ (i.inrange => i.v \in InstructionLiteralValues(T))
                                         /\ (StartsWith(i.digits, "0x") \/ StartsWith(i.digits, "-0x") \/ i.v = MinOf(T))}}

\* the literals const/high16 is written with
High16Literals ==
    {[text |-> i.text, lit |-> i] :
        i \in {i \in LiteralInputs : i.T = "i32" /\ i.text = i.digits /\ ~StartsWith(i.digits, "0X")
                                     /\ ~StartsWith(i.digits, "-0X") /\ ~StartsWith(i.digits, "0x00")
                                     /\ ~StartsWith(i.digits, "-0x00")}}

TextSamples(texts) == {[text |-> t] : t \in texts}

OperandSamples(kind) ==
    CASE kind = "reg" -> RegisterSamples
      [] kind \in {"i8", "i16", "i32", "i64"} -> LiteralSamples(kind)
      [] kind = "high16" -> High16Literals
      [] kind = "label" -> TextSamples({":cond_0"})
      [] kind = "list" -> TextSamples({"{}", "{p0}", "{p1, p2, v0, v1}"})
      [] kind = "range" -> TextSamples({"{v6 .. v12}", "{ p0 .. p3 }"})
      [] kind = "method" -> TextSamples({"Ljava/lang/Object;-><init>()V", "Lzpf;->a(JIIILxpf;)V"})
      [] kind = "field" -> TextSamples({"La/B;->count:I", "La/B;->this$0:La/C;", "La/B;->$VALUES:[La/B;"})
      [] kind = "string" -> TextSamples({"\"builder\"", "\"\"", "\"a, b #c\"", "Ljava/lang/String;", "[I"})
      [] kind = "type" -> TextSamples({"[I", "Ljava/lang/String;"})
      [] kind = "alnum" -> TextSamples({"call0", "call_site_0", "(I)V"})

\* the operands a line of each arm is written with
ArmKinds(a) ==
    CASE a.arm = "invoke_case" -> <<"list", "method">>
      [] a.arm = "one_reg_case" -> <<"reg">>
      [] a.arm = "two_reg_case" -> <<"reg", "reg">>
      [] a.arm = "three_reg_case" -> <<"reg", "reg", "reg">>
      [] a.arm = "one_reg_lit_case" -> <<"reg", a.args[2]>>
      [] a.arm = "two_reg_lit_case" -> <<"reg", "reg", a.args[3]>>
      [] a.arm = "one_reg_fieldref_case" -> <<"reg", "field">>
      [] a.arm = "two_reg_fieldref_case" -> <<"reg", "reg", "field">>
      [] a.arm = "one_reg_string_case" -> <<"reg", "string">>
      [] a.arm = "two_reg_string_case" -> <<"reg", "reg", "string">>
      [] a.arm = "one_reg_label_case" -> <<"reg", "label">>
      [] a.arm = "two_reg_label_case" -> <<"reg", "reg", "label">>
      [] a.arm = "range_method_case" -> <<"range", "method">>
      [] a.arm = "goto" -> <<"label">>
      [] a.arm = "filled_new_array" -> <<"list", "type">>
      [] a.arm = "filled_new_array_range" -> <<"range", "type">>
      [] a.arm = "invoke_polymorphic" -> <<"list", "method", "alnum">>
      [] a.arm = "invoke_polymorphic_range" -> <<"range", "method", "alnum">>
      [] a.arm = "invoke_custom" -> <<"list", "alnum">>
      [] a.arm = "invoke_custom_range" -> <<"range", "alnum">>
      [] a.arm = "const_high16" -> <<"reg", "high16">>
      [] a.arm = "const_wide_high16" -> <<"reg", "i64">>
      [] a.arm = "unit" -> <<>>

RECURSIVE OperandChoices(_, _)
\* every sequence of samples for the kinds from position i on
OperandChoices(kinds, i) ==
    IF i > Len(kinds) THEN {<<>>}
    ELSE {<<x>> \o rest : x \in OperandSamples(kinds[i]), rest \in OperandChoices(kinds, i + 1)}

RECURSIVE JoinOperands(_, _)
JoinOperands(ops, i) ==
    IF i > Len(ops) THEN ""
    ELSE ops[i].text \o (IF i < Len(ops) THEN ", " ELSE "") \o JoinOperands(ops, i + 1)

LineText(mnemonic, pad, ops, tail) ==
    mnemonic \o (IF Len(ops) = 0 THEN "" ELSE Blanks(pad + 1) \o JoinOperands(ops, 1)) \o tail

Line(mnemonic, arity, pad, ops, tail) ==
    [job |-> "instruction", mnemonic |-> mnemonic, arity |-> arity, pad |-> pad, ops |-> ops, tail |-> tail,
     text |-> LineText(mnemonic, pad, ops, tail)]

LineTails == {"", " # c", "\n    nop"}

\* the lines of an arm with all its operands
FullLines(a) ==
    {Line(a.mnemonic, "full", pad, ops, "") : pad \in 0..MaxPad, ops \in OperandChoices(ArmKinds(a), 1)}

\* the first choice of operands of an arm, followed by each tail
FirstChoice(a) == CHOOSE ops \in OperandChoices(ArmKinds(a), 1) : TRUE

TailLines(a) == {Line(a.mnemonic, "full", 0, FirstChoice(a), t) : t \in LineTails}

\* the lines of an arm with its last operand left out
ShortLines(a) ==
    IF Len(ArmKinds(a)) < 2 THEN {}
    ELSE {Line(a.mnemonic, "short", 0, ops, t) :
            ops \in OperandChoices(SubSeq(ArmKinds(a), 1, Len(ArmKinds(a)) - 1), 1), t \in LineTails}

UnknownMnemonics == {"frobnicate", "add", "add-int/", "int", "move/17", "nop2", "ADD-INT", "const-wide/high", "2addr", "-", "/"}

UnknownLines ==
    {Line(m, "unknown", 0, ops, t) :
        m \in UnknownMnemonics, ops \in {<<>>} \cup OperandChoices(<<"reg">>, 1) \cup OperandChoices(<<"reg", "reg">>, 1),
        t \in LineTails}

\* the lines of an arm with a register after its last operand
SurplusLines(a) ==
    {Line(a.mnemonic, "surplus", 0, FirstChoice(a) \o <<r>>, t) : r \in RegisterSamples, t \in LineTails}

\* the lines of an arm that takes a register range, written with braces that
\* hold no `..`
NoRangeLines(a) ==
    IF Len(ArmKinds(a)) = 0 \/ ArmKinds(a)[1] # "range" THEN {}
    ELSE {Line(a.mnemonic, "norange", 0, <<x>> \o SubSeq(FirstChoice(a), 2, Len(ArmKinds(a))), "") :
            x \in TextSamples({"{v6, v12}", "{v6}", "{}", "{v6 v12}", "{v6 . v12}", "{v6 ..}"})}

InstructionInputs ==
    UNION {FullLines(ParseArms[i]) \cup TailLines(ParseArms[i]) \cup ShortLines(ParseArms[i])
           \cup SurplusLines(ParseArms[i]) \cup NoRangeLines(ParseArms[i]) : i \in 1..Len(ParseArms)}
    \cup UnknownLines

(***************************************************************************)
(* Inputs of parse_op: a line of a method body behind the line break and   *)
(* the indentation that precede it, as in op/mod.rs tests::test1.  The      *)
(* lines are an instruction of every arm, labels and directives.            *)
(***************************************************************************)
LineLeads == {"", "\n\t", "\n    "}

OpLine(shape, lead, line) == [job |-> "op", shape |-> shape, lead |-> lead, tail |-> "", text |-> lead \o line]

\* the keys a switch table is written with: the ends of the range of i32,
\* zero and the values next to it
SwitchKeys == {"0x0", "0x1", "-0x1", "0x7fffffff", "-0x7fffffff", "-0x80000000", "-2", "65536"}

DirectiveLines == {
    ":goto_0",
    ".line 248",
    ".line 0x10",
    ".line 4294967295",
    ".catch Ljava/lang/Exception; {:try_start_0 .. :try_end_0} :catch_0",
    ".catchall {:try_start_0 .. :try_end_0} :catchall_0",
    ".array-data 4\n        0x0\n        0x3f800000\n    .end array-data",
    ".array-data 1\n        0x7ft\n        -0x1t\n    .end array-data",
    ".array-data 8\n        0x1L\n        -0x1L\n    .end array-data",
    ".packed-switch 0x1\n        :pswitch_0\n        :pswitch_1\n    .end packed-switch",
    ".packed-switch -0x1\n        :pswitch_0\n    .end packed-switch",
    ".sparse-switch\n        0x1 -> :sswitch_0\n        0x20 -> :sswitch_1\n    .end sparse-switch"
    }
    \cup {".packed-switch " \o k \o "\n        :pswitch_0\n        :pswitch_1\n    .end packed-switch" : k \in SwitchKeys}
    \cup {".sparse-switch\n        " \o k \o " -> :sswitch_0\n        0x20 -> :sswitch_1\n    .end sparse-switch" :
            k \in SwitchKeys}

OpInputs ==
    {OpLine("instruction", lead, Line(ParseArms[i].mnemonic, "full", 0, FirstChoice(ParseArms[i]), "").text) :
        lead \in LineLeads, i \in 1..Len(ParseArms)}
    \cup {OpLine("directive", lead, d) : lead \in LineLeads, d \in DirectiveLines}

(***************************************************************************)
(* Inputs of TypeSignature::from_jni and MethodSignature::from_jni: the    *)
(* texts of the tests of signature/type_signature.rs and                   *)
(* signature/method_signature.rs, one text of every form of the grammar,   *)
(* and texts that continue behind a signature.                              *)
(***************************************************************************)
TypeSignatureTexts == {
    "Ljava/util/HashMap<Ljava/lang/Class<+Lorg/antlr/v4/runtime/atn/Transition;>;Ljava/lang/Integer;>;",
    "Lorg/jf/dexlib2/writer/DexWriter<Lorg/jf/dexlib2/writer/builder/BuilderStringReference;Lorg/jf/dexlib2/writer/builder/BuilderTypeListPool;>.SectionProvider;",
    "<TSource:Ljava/lang/Object;TAccumulate:Ljava/lang/Object;TResult:Ljava/lang/Object;>Ljava/lang/Object;",
    "Z", "B", "C", "S", "I", "J", "F", "D", "V", "[B", "[[Ljava/lang/String;", "Lcom/none/Class;", "La/B$C;",
    "Ljava/util/List<*>;", "La<-Lb;>;", "La<[I>;", "La<Lb<Lc;>;>.D;", "TT;", "La<TT;>.B;", "La<TT;>.B<TU;>;",
    "+Ljava/lang/Object;", "*", "I ", " I", "IJ", "La/B;x",
    "", "X", "[", "La/B", "<T:La;>", "<T::Ljava/lang/Comparable;>Ljava/lang/Object;"
    }

MethodSignatureTexts == {
    "(TTSource;TTAccumulate;Lcom/strobel/core/Accumulator<TTSource;TTAccumulate;>;Lcom/strobel/core/Selector<TTAccumulate;TTResult;>;)TTResult;",
    "<R2:Ljava/lang/Object;>(Lcom/strobel/core/Selector<-TR;+TR2;>;)Ljava/lang/Iterable<TR2;>;^Ljava/lang/Exception;",
    "<U:TT;>(TU;)I",
    "<R2:Ljava/lang/Object;>(Lcom/strobel/core/Selector<-TR;+TR2;>;)Ljava/lang/Iterable<TR2;>;",
    "<T:Landroidx/lifecycle/ViewModel;>(Ljava/lang/Class<TT;>;)TT;",
    "([B)V", "()V", "(I)V", "(JIIILxpf;)V", "(Ljava/lang/String;[I)Ljava/lang/Object;",
    "<T:Ljava/lang/Object;>(TT;)TT;", "(La<TT;>;)V", "()V^Ljava/io/IOException;", "()V^TT;",
    "()V^La;^Lb;", "()La<TT;>.B<TU;>;", "()V ", "( I)V", "()VV",
    "", "()", "(I)", "I", "(I"
    }

SignatureInputs ==
    {[job |-> "typesig", text |-> t] : t \in TypeSignatureTexts}
    \cup {[job |-> "methodsig", text |-> t] : t \in MethodSignatureTexts}

(***************************************************************************)
(* Inputs of parse_method: a method whose body is a sequence of items, one *)
(* to a line, each item a label, a `.line` marker, an instruction or a     *)
(* directive; an item may occur more than once.                             *)
(***************************************************************************)
MaxItems == 3

BodyItems == {
    ":goto_0",
    ".line 10",
    "return-void",
    "const/4 v0, 0x1",
    ".catch Ljava/lang/Exception; {:try_start_0 .. :try_end_0} :catch_0",
    ".array-data 4\n        0x1\n    .end array-data",
    ".packed-switch 0x1\n        :goto_0\n    .end packed-switch",
    ".sparse-switch\n        0x1 -> :goto_0\n    .end sparse-switch"
    }

RECURSIVE ItemSequences(_)
ItemSequences(n) ==
    IF n = 0 THEN {<<>>} ELSE {<<>>} \cup {<<x>> \o rest : x \in BodyItems, rest \in ItemSequences(n - 1)}

RECURSIVE BodyText(_, _)
BodyText(items, i) ==
    IF i > Len(items) THEN "" ELSE "    " \o items[i] \o "\n" \o BodyText(items, i + 1)

\* lines that parse_dex_op does not accept: no mnemonic of the dispatcher, an
\* operand too few, a literal beyond the width of its operand
BrokenLines == {"frobnicate v0", "add-int v0, v1", "const/16 v0, 0x10000", "const-wide v0, 0xffffffffffffffffL"}

\* the items around a line that does not parse
BrokenBodies == {<<<<>>, <<>>>>, <<<<":goto_0", "const/4 v0, 0x1">>, <<>>>>, <<<<".line 10">>, <<"return-void">>>>}

MethodText(body) == ".method public a()V\n    .locals 1\n\n" \o body \o ".end method\n"

MethodInputs ==
    {[job |-> "method", broken |-> FALSE, items |-> items, text |-> MethodText(BodyText(items, 1))] :
        items \in ItemSequences(MaxItems)}
    \cup {[job |-> "method", broken |-> TRUE, items |-> b[1] \o <<l>> \o b[2],
           text |-> MethodText(BodyText(b[1] \o <<l>> \o b[2], 1))] : l \in BrokenLines, b \in BrokenBodies}

(***************************************************************************)
(* Inputs of parse_class: class documents put together from a header, a    *)
(* fields section and a methods section, written the way baksmali writes   *)
(* them (the layout of the documents class.rs tests::test_read_write_class *)
(* reads), each part in several forms.                                      *)
(***************************************************************************)
ClassHeaders == {
    ".class public Lcom/a/B;\n.super Ljava/lang/Object;\n",
    ".class public final Lcom/a/B;\n.super Ljava/lang/Object;\n.source \"B.java\"\n\n# interfaces\n.implements Ljava/lang/Runnable;\n.implements Ljava/io/Closeable;\n\n\n# annotations\n.annotation system Ldalvik/annotation/MemberClasses;\n    value = {\n        Lcom/a/B$C;,\n        Lcom/a/B$D;\n    }\n.end annotation\n\n.annotation runtime Lcom/a/Ann;\n    name = \"n\"\n    kind = .enum Lcom/a/K;->A:Lcom/a/K;\n    sub = .subannotation Lcom/a/S;\n        v = 0x1\n    .end subannotation\n.end annotation\n",
    ".class interface abstract Lcom/a/B;\n.super Ljava/lang/Object;\n\n# annotations\n.annotation Lcom/a/Marker;\n.end annotation\n"
    }

ClassFields == {
    "",
    "\n\n# instance fields\n.field private final x:I\n\n.field protected volatile next:Lcom/a/B;\n",
    "\n\n# static fields\n.field public static final y:I = 0x1\n",
    "\n\n# static fields\n.field public static final y:I = 0x1\n\n.field private x:I\n",
    "\n\n# instance fields\n.field public z:Ljava/util/List;\n    .annotation system Ldalvik/annotation/Signature;\n        value = {\n            \"Ljava/util/List<\",\n            \"Ljava/lang/String;\",\n            \">;\"\n        }\n    .end annotation\n.end field\n"
    }

ClassMethods == {
    "",
    "\n\n# direct methods\n.method public constructor <init>()V\n    .locals 0\n\n    .line 3\n    invoke-direct {p0}, Ljava/lang/Object;-><init>()V\n\n    return-void\n.end method\n",
    "\n\n# virtual methods\n.method public abstract run()V\n.end method\n\n.method public native size()I\n.end method\n",
    "\n\n# virtual methods\n.method public a()V\n    .locals 0\n.end method\n",
    "\n\n.method public run()V\n    .locals 0\n\n    return-void\n.end method\n",
    "\n\n# direct methods\n.method public static b(ILjava/lang/String;)I\n    .locals 2\n    .param p0, \"n\"    # I\n    .param p1    # Ljava/lang/String;\n        .annotation build Landroidx/annotation/NonNull;\n        .end annotation\n    .end param\n    .annotation system Ldalvik/annotation/Throws;\n        value = {\n            Ljava/io/IOException;\n        }\n    .end annotation\n\n    .prologue\n    .line 10\n    :try_start_0\n    const/4 v0, 0x1\n    :try_end_0\n    .catch Ljava/lang/Exception; {:try_start_0 .. :try_end_0} :catch_0\n\n    packed-switch p0, :pswitch_data_0\n\n    :goto_0\n    return v0\n\n    :catch_0\n    move-exception v1\n\n    goto :goto_0\n\n    :pswitch_data_0\n    .packed-switch 0x1\n        :goto_0\n    .end packed-switch\n.end method\n",
    "\n\n# direct methods\n.method static c()[I\n    .locals 1\n\n    const/4 v0, 0x2\n\n    new-array v0, v0, [I\n\n    fill-array-data v0, :array_0\n\n    return-object v0\n\n    :array_0\n    .array-data 4\n        0x1\n        0x2\n    .end array-data\n.end method\n",
    "\n\n# direct methods\n.method static d()J\n    .locals 2\n\n    const-wide v0, -0x1L\n\n    return-wide v0\n.end method\n",
    "\n\n# direct methods\n.method static e(I)V\n    .locals 0\n\n    sparse-switch p0, :sswitch_data_0\n\n    :sswitch_0\n    return-void\n\n    :sswitch_data_0\n    .sparse-switch\n        -0x1 -> :sswitch_0\n        0x20 -> :sswitch_0\n    .end sparse-switch\n.end method\n"
    }

\* a document with a method whose body holds a line that does not parse,
\* behind `before` methods that parse and in front of `after` more of them
BrokenDocument(before, l, b, after) ==
    ".class public Lcom/a/B;\n.super Ljava/lang/Object;\n\n\n# virtual methods\n"
    \o (IF before = 1 THEN ".method public run()V\n    .locals 0\n\n    return-void\n.end method\n\n" ELSE "")
    \o ".method public a()V\n    .locals 1\n\n" \o BodyText(b[1] \o <<l>> \o b[2], 1) \o ".end method\n"
    \o (IF after = 1 THEN "\n.method public size()I\n    .locals 1\n\n    const/4 v0, 0x0\n\n    return v0\n.end method\n"
        ELSE "")

\* names of members: names that begin with a modifier keyword, and names
\* that do not
MemberNames == {"finalize", "nativeHandle", "staticValue", "publicKey", "enumerate", "handle", "run"}

\* the modifiers a member is written with
MemberModifiers == {<<>>, <<"Private">>, <<"Public", "Static">>, <<"Protected", "Final">>}

\* a document with one member, a field or a method, of the given name
MemberDocument(kind, mods, name) ==
    ".class public Lcom/a/B;\n.super Ljava/lang/Object;\n\n\n"
    \o (IF kind = "field" THEN "# instance fields\n.field " \o write_modifiers(mods) \o name \o ":J\n"
        ELSE "# virtual methods\n.method " \o write_modifiers(mods) \o name
             \o "()V\n    .locals 0\n\n    return-void\n.end method\n")

ClassInputs ==
    {[job |-> "class", broken |-> FALSE, member |-> "", text |-> h \o f \o m] :
        h \in ClassHeaders, f \in ClassFields, m \in ClassMethods}
    \cup {[job |-> "class", broken |-> TRUE, member |-> "", before |-> before, after |-> after,
           text |-> BrokenDocument(before, l, b, after)] :
            before \in 0..1, after \in 0..1, l \in BrokenLines, b \in BrokenBodies}
    \cup {[job |-> "class", broken |-> FALSE, member |-> kind, modifiers |-> mods, name |-> name,
           text |-> MemberDocument(kind, mods, name)] :
            kind \in {"field", "method"}, mods \in MemberModifiers, name \in MemberNames}

(***************************************************************************)
(* Inputs of the modifier tables: every Modifier, for to_str and from_str, *)
(* and keywords for parse_modifiers and from_str: the keywords of          *)
(* parse_modifiers and words that are none.                                 *)
(***************************************************************************)
ModifierValues == {Modifiers[i] : i \in 1..Len(Modifiers)} \cup {"DeclaredSynchronized"}

ModifierKeywords ==
    {ModifierLiterals[i] : i \in 1..Len(ModifierLiterals)}
    \cup {"strictfp", "declared-synchronized", "Public", "default", ""}

ModifierInputs ==
    {[job |-> "modifier", of |-> "value", m |-> m] : m \in ModifierValues}
    \cup {[job |-> "modifier", of |-> "keyword", text |-> k] : k \in ModifierKeywords}

(***************************************************************************)
(* DexOp values built directly: the variants no text yields, the high16    *)
(* constants over the whole range of their stored value, and const-wide    *)
(* with values from both ends of the range of i64.                          *)
(***************************************************************************)
U8Max == 255

High16Values ==
    {MinOf("i16") + d : d \in 0..Window} \cup ((-Window)..Window) \cup {MaxOf("i16") - d : d \in 0..Window}
    \cup {15, 16, 255, 256, 4095, 4096, 16256, -256, -4096}

BuiltInputs ==
    {[job |-> "built", op |-> DexOp("Unused", <<"opcode">>, <<[k |-> "u8", v |-> c]>>)] : c \in 0..U8Max}
    \cup {[job |-> "built", op |-> DexOp(variant, <<"dest", "value">>, <<r.val, IntVal("i16", v)>>)] :
            variant \in {"ConstHigh16", "ConstWideHigh16"}, r \in RegisterSamples, v \in High16Values}
    \cup {[job |-> "built", op |-> DexOp("ConstWide", <<"dest", "value">>, <<r.val, BitsVal("i64", BitsOfHex(w[2], 1))>>)] :
            r \in RegisterSamples, w \in {w \in WideLiterals : w[2] # ""}}

(***************************************************************************)
(* The state machine: a caller takes an input, calls a parser on it, and   *)
(* for an instruction renders the value and parses the rendered text.      *)
(***************************************************************************)
VARIABLES
    input,    \* the input of the call, with the parts it was written from
    pc,       \* "start", "parsed", "rendered", "reparsed", "commented"
    first,    \* result of the first parse
    rendered, \* result of Display on the parsed value
    second,   \* result of the second parse: of the rendered text, or of the text with a comment
    appended  \* the comment a caller appended to the text for the second parse

vars == <<input, pc, first, rendered, second, appended>>

NoResult == [kind |-> "none"]

Init ==
    /\ input \in RegisterInputs \cup LiteralInputs \cup InstructionInputs \cup BuiltInputs \cup OpInputs
                \cup SignatureInputs \cup ClassInputs \cup MethodInputs \cup ModifierInputs
    /\ pc = "start"
    /\ first = NoResult
    /\ rendered = NoResult
    /\ second = NoResult
    /\ appended = ""

\* a caller hands a text to parse_register
ParseRegister ==
    /\ pc = "start"
    /\ input.job = "register"
    /\ first' = parse_register(input.text)
    /\ pc' = "parsed"
    /\ UNCHANGED <<input, rendered, second, appended>>

\* a caller hands a text to parse_int_lit::<T>()
ParseLiteral ==
    /\ pc = "start"
    /\ input.job = "literal"
    /\ first' = parse_int_lit(input.text, input.T)
    /\ pc' = "parsed"
    /\ UNCHANGED <<input, rendered, second, appended>>

\* a caller hands a line to parse_dex_op
ParseInstruction ==
    /\ pc = "start"
    /\ input.job = "instruction"
    /\ first' = parse_dex_op(input.text)
    /\ pc' = "parsed"
    /\ UNCHANGED <<input, rendered, second, appended>>

\* the value a caller holds: the one it built, or the one it parsed
Held == IF input.job = "built" THEN input.op ELSE first.op

\* a caller formats the DexOp it holds
Render ==
    /\ \/ pc = "start" /\ input.job = "built"
       \/ pc = "parsed" /\ input.job = "instruction" /\ first.kind = "ok"
    /\ rendered' = Display(Held)
    /\ pc' = "rendered"
    /\ UNCHANGED <<input, first, second, appended>>

\* a caller hands the rendered text to parse_dex_op
Reparse ==
    /\ pc = "rendered"
    /\ input.job \in {"instruction", "built"}
    /\ rendered.kind = "ok"
    /\ second' = parse_dex_op(rendered.text)
    /\ pc' = "reparsed"
    /\ UNCHANGED <<input, first, rendered, appended>>

\* the parser a caller of each job calls: parse_op(), parse_class(),
\* parse_method() and parse_modifiers() each return a parser of the
\* combinators, which the caller runs on its text
ParserOfJob ==
    [op |-> "parse_op", class |-> "parse_class", method |-> "parse_method", modifier |-> "parse_modifiers"]

\* a caller runs the parser of its job on its text: a line of a method
\* body, a method, a class document, or a modifier keyword
ParseText ==
    /\ pc = "start"
    /\ input.job \in DOMAIN ParserOfJob
    /\ input.job = "modifier" => input.of = "keyword"
    /\ first' = Run(ParserOf(ParserOfJob[input.job]), input.text)
    /\ pc' = "parsed"
    /\ UNCHANGED <<input, rendered, second, appended>>

\* the text written for a parsed value: Display of an Op as write_method
\* formats it, write_method of a Method, to_smali of a Class
Written(job, v) ==
    CASE job = "op" -> FmtOp(v)
      [] job = "method" -> write_method(v)
      [] job = "class" -> write_class(v)

\* a caller writes the value it was given
WriteText ==
    /\ pc = "parsed"
    /\ input.job \in {"op", "method", "class"}
    /\ first.ok
    /\ rendered' = [kind |-> "ok", text |-> Written(input.job, first.val)]
    /\ pc' = "rendered"
    /\ UNCHANGED <<input, first, second, appended>>

\* a caller runs the parser of its job on the written text
ReparseText ==
    /\ pc = "rendered"
    /\ input.job \in {"op", "method", "class"}
    /\ second' = Run(ParserOf(ParserOfJob[input.job]), rendered.text)
    /\ pc' = "reparsed"
    /\ UNCHANGED <<input, first, rendered, appended>>

\* the comments a caller appends to a line: behind blanks or directly behind
\* the last operand, empty or not, the last line of the text or not
Comments == {" # c", "#c", "\t#", "    # a, \"b\" -> :c\n"}

\* whether the first parse returned a value
Accepted == IF input.job = "op" THEN first.ok ELSE first.kind = "ok"

\* a caller appends a line comment to a text that was parsed to a value and
\* hands the longer text to the same parser
ParseCommented ==
    /\ pc = "parsed"
    /\ input.job \in {"instruction", "op"}
    /\ input.tail = ""
    /\ Accepted
    /\ \E c \in Comments :
        /\ appended' = c
        /\ second' = IF input.job = "op" THEN parse_op(input.text \o c) ELSE parse_dex_op(input.text \o c)
    /\ pc' = "commented"
    /\ UNCHANGED <<input, first, rendered>>

\* a caller hands a text to TypeSignature::from_jni
TypeSignatureFromJni ==
    /\ pc = "start"
    /\ input.job = "typesig"
    /\ first' = from_jni(input.text)
    /\ pc' = "parsed"
    /\ UNCHANGED <<input, rendered, second, appended>>

\* a caller calls to_jni on the TypeSignature it was given
TypeSignatureToJni ==
    /\ pc = "parsed"
    /\ input.job = "typesig"
    /\ first.kind = "ok"
    /\ rendered' = [kind |-> "ok", text |-> to_jni(first.val)]
    /\ pc' = "rendered"
    /\ UNCHANGED <<input, first, second, appended>>

\* a caller hands a text to MethodSignature::from_jni
MethodSignatureFromJni ==
    /\ pc = "start"
    /\ input.job = "methodsig"
    /\ first' = ms_from_jni(input.text)
    /\ pc' = "parsed"
    /\ UNCHANGED <<input, rendered, second, appended>>

\* a caller calls to_jni on the MethodSignature it was given
MethodSignatureToJni ==
    /\ pc = "parsed"
    /\ input.job = "methodsig"
    /\ first.kind = "ok"
    /\ rendered' = [kind |-> "ok", text |-> ms_to_jni(first.val)]
    /\ pc' = "rendered"
    /\ UNCHANGED <<input, first, second, appended>>

\* a caller calls to_str on a Modifier
ModifierToStr ==
    /\ pc = "start"
    /\ input.job = "modifier"
    /\ input.of = "value"
    /\ rendered' = [kind |-> "ok", text |-> to_str(input.m)]
    /\ pc' = "rendered"
    /\ UNCHANGED <<input, first, second, appended>>

\* a caller hands a keyword to Modifier::from_str: the text to_str gave, or
\* the keyword parse_modifiers was handed
ModifierFromStr ==
    /\ input.job = "modifier"
    /\ \/ pc = "rendered" /\ second' = from_str(rendered.text)
       \/ pc = "parsed" /\ second' = from_str(input.text)
    /\ pc' = "reparsed"
    /\ UNCHANGED <<input, first, rendered, appended>>

Next ==
    \/ ParseRegister
    \/ ParseLiteral
    \/ ParseInstruction
    \/ Render
    \/ Reparse
    \/ ParseText
    \/ WriteText
    \/ ReparseText
    \/ ParseCommented
    \/ TypeSignatureFromJni
    \/ TypeSignatureToJni
    \/ MethodSignatureFromJni
    \/ MethodSignatureToJni
    \/ ModifierToStr
    \/ ModifierFromStr

Spec == Init /\ [][Next]_vars

(***************************************************************************)
(* C1: round trip.  For every instruction text that parse_dex_op accepts,  *)
(* rendering the parsed DexOp and parsing the rendered text again succeeds *)
(* and yields a value equal to the first parse result.                      *)
(***************************************************************************)
C1_RoundTrip ==
    (pc = "reparsed" /\ input.job = "instruction") =>
        (second.kind = "ok" /\ second.op = first.op)

(***************************************************************************)
(* C2: the serializer is total.  Formatting any DexOp value, Unused with   *)
(* any opcode included, returns text and never panics.                      *)
(***************************************************************************)
C2_DisplayTotal == (pc = "rendered") => (rendered.kind = "ok")

(***************************************************************************)
(* C3: an unknown mnemonic is an error value.  When the leading token of a *)
(* line matches no mnemonic of the catalog, parse_dex_op returns an error  *)
(* to its caller and does not panic.                                        *)
(***************************************************************************)
Mnemonics == {ParseArms[i].mnemonic : i \in 1..Len(ParseArms)}

C3_UnknownMnemonicIsError ==
    (pc = "parsed" /\ input.job = "instruction" /\ input.mnemonic \notin Mnemonics) =>
        (first.kind = "err")

(***************************************************************************)
(* C4: parse_register accepts exactly the 16-bit index domain.  After the  *)
(* blanks that the parser skips, "v<n>" yields Local(n) and "p<n>" yields  *)
(* Parameter(n) for every n in 0..=65535; a digit run whose value exceeds  *)
(* 65535, or a text that starts with neither v nor p, yields no register.  *)
(***************************************************************************)
C4_RegisterDomain ==
    (pc = "parsed" /\ input.job = "register") =>
        /\ (input.prefix = "v" /\ input.n <= U16Max) => (first.ok /\ first.val = Local(input.n))
        /\ (input.prefix = "p" /\ input.n <= U16Max) => (first.ok /\ first.val = Parameter(input.n))
        /\ (input.n > U16Max) => ~first.ok
        /\ (input.prefix \notin {"v", "p"}) => ~first.ok

C4_Witness ==
    /\ pc = "parsed" /\ input.job = "register"
    /\ input.prefix = "p" /\ input.n = U16Max /\ input.pad = 0
    /\ first.ok /\ first.val = Parameter(U16Max)

(***************************************************************************)
(* C5: parse_int_lit::<T> maps an optional '-' followed by hex or decimal  *)
(* digits to the exact signed value, for every value in T's range, the     *)
(* minimum included, and fails for every literal whose value lies outside  *)
(* T's range (T in i8, i16, i32, i64).                                      *)
(***************************************************************************)
ExpectedLiteral(i) == IF IsSmall(i.T) THEN IntVal(i.T, i.v) ELSE BitsVal(i.T, i.bits)

C5_LiteralBoundaries ==
    (pc = "parsed" /\ input.job = "literal") =>
        IF input.inrange THEN first.ok /\ first.val = ExpectedLiteral(input)
        ELSE ~first.ok

C5_Witness ==
    /\ pc = "parsed" /\ input.job = "literal"
    /\ input.T = "i32" /\ input.digits = "-0x80000000"
    /\ first.ok /\ first.val = IntVal("i32", MinOf("i32"))

(***************************************************************************)
(* C6: parsing const/high16 r, L stores the 32-bit literal L shifted right *)
(* arithmetically by 16 bits (0x3f800000 stores 0x3f80, -0x80000000 stores *)
(* -0x8000); parsing const-wide/high16 r, L stores the 64-bit literal L    *)
(* shifted right arithmetically by 48 bits.                                 *)
(***************************************************************************)
\* the 64-bit literals of the inputs, each with L >> 48
C6_WideShifted ==
    [t \in {"0", "-0", "1", "-1", "-0x1", "10", "0x3f800000", "2147483648", "-2147483649", "0xffffffff",
            "0x123456789abcdef0", "-0x123456789abcdef", "0x3ff0000000000000", "0x7fffffffffffffff",
            "9223372036854775807", "0X7FFFFFFFFFFFFFFF", "-0x8000000000000000", "-9223372036854775808",
            "-0x7fffffffffffffff"} |->
        CASE t \in {"0", "-0", "1", "10", "0x3f800000", "2147483648", "0xffffffff"} -> 0
          [] t \in {"-1", "-0x1", "-2147483649"} -> -1
          [] t = "0x123456789abcdef0" -> 4660
          [] t = "-0x123456789abcdef" -> -292
          [] t = "0x3ff0000000000000" -> 16368
          [] t \in {"0x7fffffffffffffff", "9223372036854775807", "0X7FFFFFFFFFFFFFFF"} -> 32767
          [] t \in {"-0x8000000000000000", "-9223372036854775808"} -> -32768
          [] t = "-0x7fffffffffffffff" -> -32768]

C6_High16Parse ==
    (/\ pc = "parsed" /\ input.job = "instruction" /\ input.arity = "full"
     /\ input.mnemonic \in {"const/high16", "const-wide/high16"}
     /\ input.ops[2].lit.inrange) =>
        /\ first.kind = "ok"
        /\ first.op.fields["dest"] = input.ops[1].val
        /\ first.op.fields["value"].k = "i16"
        /\ IF input.mnemonic = "const/high16"
           THEN /\ first.op.variant = "ConstHigh16"
                /\ input.ops[2].lit.v - first.op.fields["value"].v * 65536 \in 0..65535
           ELSE /\ first.op.variant = "ConstWideHigh16"
                /\ first.op.fields["value"].v = C6_WideShifted[input.ops[2].lit.digits]

C6_Witness ==
    /\ pc = "parsed" /\ input.job = "instruction" /\ input.arity = "full"
    /\ input.mnemonic = "const/high16" /\ input.ops[2].text = "-0x80000000"
    /\ first.kind = "ok" /\ first.op.fields["value"] = IntVal("i16", -32768)

(***************************************************************************)
(* C7: for every stored value of ConstHigh16 the rendered literal is 0x    *)
(* followed by exactly 8 hexadecimal digits: the stored 16 bits padded     *)
(* with zeros to 4 hex digits, then 0000.                                   *)
(***************************************************************************)
IsHexRun(t) == \A i \in 1..Len(t) : At(t, i) \in HexDigits

C7_EightHexDigits ==
    (pc = "rendered" /\ Held.variant = "ConstHigh16") =>
        LET head == "const/high16 " \o FmtRegister(Held.fields["dest"]) \o ", 0x"
            digits == Drop(rendered.text, Len(head))
        IN /\ rendered.kind = "ok"
           /\ StartsWith(rendered.text, head)
           /\ Len(digits) = 8 /\ IsHexRun(digits)
           /\ SubSeq(digits, 5, 8) = "0000"

(***************************************************************************)
(* C8: high16 rendering inverts the high16 parse transform.  For every     *)
(* 16-bit stored value v, negative values included, the text rendered for  *)
(* ConstHigh16 {dest, v} parses again to ConstHigh16 {dest, v}, and the    *)
(* text rendered for ConstWideHigh16 {dest, v} parses again to             *)
(* ConstWideHigh16 {dest, v}.                                               *)
(***************************************************************************)
C8_High16Inverse ==
    (/\ pc = "reparsed" /\ input.job = "built"
     /\ input.op.variant \in {"ConstHigh16", "ConstWideHigh16"}) =>
        (second.kind = "ok" /\ second.op = input.op)

(***************************************************************************)
(* C9: for every three-register mnemonic, a line that supplies only two    *)
(* registers makes parse_dex_op fail; no DexOp is returned for it.          *)
(***************************************************************************)
ThreeRegisterMnemonics ==
    {ParseArms[i].mnemonic : i \in {i \in 1..Len(ParseArms) : ParseArms[i].arm = "three_reg_case"}}

C9_TwoRegistersRejected ==
    (/\ pc = "parsed" /\ input.job = "instruction" /\ input.arity = "short"
     /\ input.mnemonic \in ThreeRegisterMnemonics) =>
        (first.kind = "err")

C9_Witness ==
    /\ pc = "parsed" /\ input.job = "instruction"
    /\ input.text = "add-int v0, p1"
    /\ first.kind = "err"

(***************************************************************************)
(* C10: the dispatcher takes the maximal run of mnemonic characters and    *)
(* selects the variant whose mnemonic equals that whole token: a line that *)
(* starts with a mnemonic that extends another one is never parsed as the  *)
(* shorter variant, nor the other way round.                                *)
(***************************************************************************)
\* the mnemonic a variant is written with
WrittenMnemonic(variant) == MnemonicToken(DisplayFmt[variant]).val

C10_WholeTokenSelects ==
    (/\ pc = "parsed" /\ input.job = "instruction" /\ input.mnemonic \in Mnemonics) =>
        /\ first.kind # "panic"
        /\ (first.kind = "ok") =>
              /\ WrittenMnemonic(first.op.variant) = input.mnemonic
              /\ \A i \in 1..Len(ParseArms) :
                    (ParseArms[i].variant = first.op.variant) => (ParseArms[i].mnemonic = input.mnemonic)
        /\ (input.arity = "full" /\ input.tail = "" /\ \A i \in 1..Len(input.ops) :
                (input.ops[i].text \in {"v0", "p1", ":cond_0", "{p0}", "{v6 .. v12}"})) =>
              (first.kind = "ok")

C10_Witness ==
    /\ pc = "parsed" /\ input.job = "instruction"
    /\ input.mnemonic = "add-int/2addr"
    /\ first.kind = "ok" /\ first.op.variant = "AddInt2Addr"

(***************************************************************************)
(* C11: trailing comment tolerance.  When a line parses to a value,        *)
(* appending a line comment after its last operand, behind blanks or       *)
(* directly, leaves the outcome unchanged: parse_dex_op and parse_op       *)
(* succeed on the longer text and yield the value of the line without the  *)
(* comment.                                                                 *)
(***************************************************************************)
C11_CommentTolerated ==
    (pc = "commented") =>
        IF input.job = "op" THEN second.ok /\ second.val = first.val
        ELSE second.kind = "ok" /\ second.op = first.op

C11_Witness ==
    /\ pc = "commented" /\ input.job = "op" /\ input.lead = "\n\t"
    /\ appended = "#c"
    /\ first.ok /\ first.val.k = "Op::Op" /\ first.val.op.variant = "Goto"
    /\ second.ok /\ second.val = first.val

(***************************************************************************)
(* C12: frame of a single-instruction parse.  When parse_dex_op accepts a  *)
(* line that has all its operands, the remaining input is exactly the text *)
(* that follows the last operand: a trailing comment, or the line break    *)
(* and the next line, unchanged.                                            *)
(***************************************************************************)
C12_TailUntouched ==
    (/\ pc = "parsed" /\ input.job = "instruction" /\ input.arity = "full" /\ first.kind = "ok") =>
        first.rest = input.tail

(***************************************************************************)
(* C13: const-string with a quoted literal.  The line                      *)
(* `const-string r, "s"`, s holding no quote and no backslash, parses to   *)
(* ConstString { dest: r, value: String(s) } with s stored without the     *)
(* quotes, and Display writes that value as the text of the line again.    *)
(***************************************************************************)
\* the content of a quoted operand
Unquoted(text) == SubSeq(text, 2, Len(text) - 1)

C13_QuotedLine ==
    /\ input.job = "instruction" /\ input.mnemonic = "const-string" /\ input.arity = "full"
    /\ StartsWith(input.ops[2].text, "\"")

C13_ConstStringLiteral ==
    (C13_QuotedLine /\ pc # "start") =>
        /\ first.kind = "ok"
        /\ first.op.variant = "ConstString"
        /\ first.op.fields["dest"] = input.ops[1].val
        /\ first.op.fields["value"] = [k |-> "String", s |-> Unquoted(input.ops[2].text)]
        /\ (pc = "rendered") =>
              /\ rendered.kind = "ok"
              /\ rendered.text = LineText("const-string", 0, input.ops, "")

C13_Witness ==
    /\ C13_QuotedLine /\ pc = "rendered"
    /\ input.text = "const-string p1, \"a, b #c\""
    /\ first.op.fields["value"].s = "a, b #c"
    /\ rendered.text = input.text

(***************************************************************************)
(* C14: invoke register list.  A line `invoke-X {r1, ..., rk}, methodref`  *)
(* of a non-range invoke mnemonic parses to the variant of that mnemonic;  *)
(* its registers are r1..rk in the order written, each with its            *)
(* Parameter/Local tag, and its method reference holds the class and the   *)
(* name with signature as parse_typesignature and parse_method_parameter   *)
(* give them when called on those parts alone.                              *)
(***************************************************************************)
InvokeMnemonics ==
    [m \in {"invoke-virtual", "invoke-super", "invoke-direct", "invoke-static", "invoke-interface"} |->
        CASE m = "invoke-virtual" -> "InvokeVirtual"
          [] m = "invoke-super" -> "InvokeSuper"
          [] m = "invoke-direct" -> "InvokeDirect"
          [] m = "invoke-static" -> "InvokeStatic"
          [] m = "invoke-interface" -> "InvokeInterface"]

\* the registers each list is written with
C14_Registers ==
    [t \in {"{}", "{p0}", "{p1, p2, v0, v1}"} |->
        CASE t = "{}" -> <<>>
          [] t = "{p0}" -> <<[k |-> "Register", tag |-> "Parameter", n |-> 0]>>
          [] t = "{p1, p2, v0, v1}" ->
                <<[k |-> "Register", tag |-> "Parameter", n |-> 1], [k |-> "Register", tag |-> "Parameter", n |-> 2],
                  [k |-> "Register", tag |-> "Local", n |-> 0], [k |-> "Register", tag |-> "Local", n |-> 1]>>]

\* the class and the name with signature each method reference is written with
C14_MethodParts ==
    [t \in {"Ljava/lang/Object;-><init>()V", "Lzpf;->a(JIIILxpf;)V"} |->
        IF t = "Lzpf;->a(JIIILxpf;)V" THEN <<"Lzpf;", "a(JIIILxpf;)V">> ELSE <<"Ljava/lang/Object;", "<init>()V">>]

C14_InvokeLine ==
    /\ pc = "parsed" /\ input.job = "instruction" /\ input.arity = "full"
    /\ input.mnemonic \in DOMAIN InvokeMnemonics

\* the register lists of invoke-polymorphic and invoke-custom, whose lines
\* carry a further operand, when the line is accepted
C14_OtherInvokeRegisters ==
    (/\ pc = "parsed" /\ input.job = "instruction" /\ input.arity = "full"
     /\ input.mnemonic \in {"invoke-polymorphic", "invoke-custom"} /\ first.kind = "ok") =>
        first.op.fields["registers"].regs = C14_Registers[input.ops[1].text]

RangeMnemonics ==
    [m \in {"invoke-virtual/range", "invoke-super/range", "invoke-direct/range", "invoke-static/range",
            "invoke-interface/range", "filled-new-array/range"} |->
        CASE m = "invoke-virtual/range" -> "InvokeVirtualRange"
          [] m = "invoke-super/range" -> "InvokeSuperRange"
          [] m = "invoke-direct/range" -> "InvokeDirectRange"
          [] m = "invoke-static/range" -> "InvokeStaticRange"
          [] m = "invoke-interface/range" -> "InvokeInterfaceRange"
          [] m = "filled-new-array/range" -> "FilledNewArrayRange"]

\* the range each braces operand is written with
C15_Range ==
    [t \in {"{v6 .. v12}", "{ p0 .. p3 }"} |->
        IF t = "{v6 .. v12}"
        THEN [k |-> "RegisterRange", start |-> [k |-> "Register", tag |-> "Local", n |-> 6],
              end |-> [k |-> "Register", tag |-> "Local", n |-> 12]]
        ELSE [k |-> "RegisterRange", start |-> [k |-> "Register", tag |-> "Parameter", n |-> 0],
              end |-> [k |-> "Register", tag |-> "Parameter", n |-> 3]]]

C15_RangeLine ==
    /\ pc = "parsed" /\ input.job = "instruction" /\ input.arity = "full"
    /\ input.mnemonic \in DOMAIN RangeMnemonics

\* the ranges of invoke-polymorphic/range and invoke-custom/range, whose
\* lines carry a further operand, when the line is accepted
C15_OtherRanges ==
    (/\ pc = "parsed" /\ input.job = "instruction" /\ input.arity = "full"
     /\ input.mnemonic \in {"invoke-polymorphic/range", "invoke-custom/range"} /\ first.kind = "ok") =>
        first.op.fields["range"] = C15_Range[input.ops[1].text]

C15_RangeForms ==
    /\ C15_OtherRanges
    /\ C15_RangeLine =>
        /\ first.kind = "ok"
        /\ first.op.variant = RangeMnemonics[input.mnemonic]
        /\ IF input.mnemonic = "filled-new-array/range"
           THEN /\ first.op.fields["registers"] = C15_Range[input.ops[1].text]
                /\ first.op.fields["class"].k = "TypeSig"
                /\ FmtStringOrTypeSig(first.op.fields["class"]) = input.ops[2].text
           ELSE /\ first.op.fields["range"] = C15_Range[input.ops[1].text]
                /\ first.op.fields["method"].class = parse_typesignature(C14_MethodParts[input.ops[2].text][1]).val
                /\ first.op.fields["method"].param =
                      parse_method_parameter(C14_MethodParts[input.ops[2].text][2]).val
    /\ (pc = "parsed" /\ input.job = "instruction" /\ input.arity = "norange") => first.kind = "err"

C15_Witness ==
    /\ C15_RangeLine
    /\ input.text = "filled-new-array/range {v6 .. v12}, [I"
    /\ first.kind = "ok" /\ first.op.variant = "FilledNewArrayRange"
    /\ first.op.fields["registers"].start.n = 6 /\ first.op.fields["registers"].end.n = 12
    /\ to_jni(first.op.fields["class"].ts) = "[I"

C15_RejectedWitness ==
    /\ pc = "parsed" /\ input.job = "instruction" /\ input.arity = "norange"
    /\ input.text = "invoke-static/range {v6, v12}, Ljava/lang/Object;-><init>()V"
    /\ first.kind = "err"

(***************************************************************************)
(* C16: string operands are re-quoted.  For the instructions that carry a  *)
(* string-or-type operand, Display writes a String operand between double  *)
(* quotes and a TypeSig operand without quotes, so that parsing the        *)
(* rendered text gives an operand of the same kind with the same content.  *)
(***************************************************************************)
StringOperandMnemonics ==
    {"const-string", "const-string/jumbo", "const-class", "check-cast", "new-instance", "instance-of",
     "new-array", "const-method-handle", "const-method-type"}

\* the line with its last operand written as the text t
C16_LineWith(t) == LineText(input.mnemonic, 0, [input.ops EXCEPT ![Len(input.ops)] = [text |-> t]], "")

C16_StringOperandKept ==
    (/\ pc \in {"rendered", "reparsed"} /\ input.job = "instruction" /\ input.arity = "full"
     /\ input.mnemonic \in StringOperandMnemonics) =>
        \A f \in DOMAIN first.op.fields :
            (first.op.fields[f].k \in {"String", "TypeSig"}) =>
                /\ rendered.kind = "ok"
                /\ (first.op.fields[f].k = "String") =>
                      rendered.text = C16_LineWith("\"" \o first.op.fields[f].s \o "\"")
                /\ (first.op.fields[f].k = "TypeSig") =>
                      rendered.text = C16_LineWith(to_jni(first.op.fields[f].ts))
                /\ (pc = "reparsed") =>
                      /\ second.kind = "ok"
                      /\ second.op.fields[f] = first.op.fields[f]

(***************************************************************************)
(* C20: arity rejection, too many operands.  A line that carries one       *)
(* operand more than the shape of its mnemonic takes is a parse failure:   *)
(* parse_dex_op does not accept the leading operands and leave the surplus *)
(* one in the remaining input.                                              *)
(***************************************************************************)
C20_SurplusRejected ==
    (pc = "parsed" /\ input.job = "instruction" /\ input.arity = "surplus") => first.kind = "err"

(***************************************************************************)
(* C18: type signature text round trip.  For every text ts that            *)
(* TypeSignature::from_jni accepts, from_jni(ts).to_jni() is ts.            *)
(***************************************************************************)
C18_TypeSignatureRoundTrip ==
    (pc = "rendered" /\ input.job = "typesig") => rendered.text = input.text

(***************************************************************************)
(* C19: method signature text round trip.  For every text ms that          *)
(* MethodSignature::from_jni accepts, from_jni(ms).to_jni() is ms.          *)
(***************************************************************************)
C19_MethodSignatureRoundTrip ==
    (pc = "rendered" /\ input.job = "methodsig") => rendered.text = input.text

(***************************************************************************)
(* C17: class document round trip.  When parse_class consumes a document   *)
(* completely and gives the Class c, parse_class also consumes the text of *)
(* c.to_smali() completely and gives a Class equal to c.                    *)
(***************************************************************************)
C17_ClassRoundTrip ==
    (pc = "reparsed" /\ input.job = "class" /\ first.rest = "") =>
        /\ second.ok
        /\ second.rest = ""
        /\ second.val = first.val

(***************************************************************************)
(* C21: source order in a method body.  parse_method returns the items of  *)
(* the body (labels, `.line` markers, instructions, catch, array-data and  *)
(* switch directives) in Method.ops in the order of the text, none         *)
(* dropped, duplicated or reordered, and write_method writes them in that  *)
(* order.                                                                  *)
(***************************************************************************)
\* the value parse_op gives for the i-th item of the body when it is handed
\* that item alone
C21_Item(i) == parse_op(input.items[i]).val

\* Method.ops holds the values of the items of the text, one for one
C21_OpsInOrder ==
    /\ first.ok
    /\ Len(first.val.ops) = Len(input.items)
    /\ \A i \in 1..Len(input.items) : first.val.ops[i] = C21_Item(i)

RECURSIVE C21_WrittenItems(_)
\* the lines write_method is to write for the items from the i-th on
C21_WrittenItems(i) ==
    IF i > Len(input.items) THEN ""
    ELSE "    " \o FmtOp(C21_Item(i)) \o "\n" \o C21_WrittenItems(i + 1)

C21_WrittenInOrder ==
    rendered.text = ".method public a()V\n" \o (IF Len(input.items) > 0 THEN "    .locals 1\n" ELSE "")
                    \o C21_WrittenItems(1) \o ".end method\n\n"

C21_SourceOrder ==
    /\ (pc = "parsed" /\ input.job = "method" /\ ~input.broken) => C21_OpsInOrder
    /\ (pc = "rendered" /\ input.job = "method" /\ ~input.broken) => C21_WrittenInOrder

\* a body of three items of different kinds, one of them twice, was parsed
\* and written
C21_Witness ==
    /\ pc = "rendered"
    /\ input.job = "method"
    /\ input.items = <<":goto_0", "return-void", ":goto_0">>
    /\ Len(first.val.ops) = 3
    /\ first.val.ops[1].k = "Op::Label"
    /\ first.val.ops[2].k = "Op::Op"
    /\ first.val.ops[3] = first.val.ops[1]

C23_Const4FourBits ==
    (pc = "parsed" /\ input.job = "instruction" /\ first.kind = "ok" /\ first.op.variant = "Const4") =>
        first.op.fields.value.v \in -8..7

(***************************************************************************)
(* C24: polymorphic and custom invokes keep their extra operand in full.   *)
(* A line `invoke-polymorphic {regs}, <methodref>, <proto>` whose proto is *)
(* a method prototype such as `(I)V` is parsed with the whole prototype in *)
(* `proto`, a line of invoke-custom with the whole call-site name such as  *)
(* `call_site_0` in `call_site`, and the rendered text is parsed to the    *)
(* same value.                                                             *)
(***************************************************************************)
\* the lines the claim is about: the mnemonic, the field of the extra
\* operand, and the operand texts it names
C24_Lines ==
    {[mnemonic |-> "invoke-polymorphic", field |-> "proto", extra |-> "(I)V"],
     [mnemonic |-> "invoke-polymorphic/range", field |-> "proto", extra |-> "(I)V"],
     [mnemonic |-> "invoke-custom", field |-> "call_site", extra |-> "call_site_0"],
     [mnemonic |-> "invoke-custom/range", field |-> "call_site", extra |-> "call_site_0"]}

C24_Line(l) ==
    /\ input.job = "instruction"
    /\ input.arity = "full"
    /\ input.mnemonic = l.mnemonic
    /\ input.ops[Len(input.ops)].text = l.extra

C24_ExtraOperandKept ==
    \A l \in C24_Lines :
        /\ (pc = "parsed" /\ C24_Line(l)) =>
                /\ first.kind = "ok"
                /\ first.rest = ""
                /\ first.op.fields[l.field] = l.extra
        /\ (pc = "reparsed" /\ C24_Line(l)) =>
                /\ second.kind = "ok"
                /\ second.op = first.op

(***************************************************************************)
(* C25: mnemonic preservation.  For every mnemonic m that parse_dex_op     *)
(* recognises and every operand text it accepts for m, the text rendered   *)
(* for the parsed value starts with m, followed by a space or by the end   *)
(* of the text; and every mnemonic Display writes is one the dispatcher    *)
(* recognises.                                                             *)
(***************************************************************************)
\* text starts with the word m: m, then a space or nothing
C25_StartsWithWord(text, m) ==
    /\ StartsWith(text, m)
    /\ (Len(text) = Len(m) \/ At(text, Len(m) + 1) = " ")

C25_MnemonicPreserved ==
    /\ (pc = "rendered" /\ input.job = "instruction") =>
            /\ rendered.kind = "ok"
            /\ C25_StartsWithWord(rendered.text, input.mnemonic)
    /\ (pc = "rendered" /\ input.job \in {"instruction", "built"} /\ rendered.kind = "ok") =>
            MnemonicToken(rendered.text).val \in Mnemonics

\* a line of a mnemonic with a suffix behind `/` was parsed and rendered
C25_Witness ==
    /\ pc = "rendered"
    /\ input.job = "instruction"
    /\ input.mnemonic = "const-string/jumbo"
    /\ input.text = "const-string/jumbo  p1, \"builder\""
    /\ rendered.text = "const-string/jumbo p1, \"builder\""

(***************************************************************************)
(* C26: const-wide round trip over the whole 64-bit range.  For every i64  *)
(* value v, negative values included, the text rendered for                *)
(* ConstWide { dest, value: v } is accepted by parse_dex_op and gives      *)
(* ConstWide { dest, value: v }.                                            *)
(***************************************************************************)
C26_ConstWideRoundTrip ==
    (pc = "reparsed" /\ input.job = "built" /\ input.op.variant = "ConstWide") =>
        /\ second.kind = "ok"
        /\ second.op = input.op

(***************************************************************************)
(* C27: modifier keywords are matched as whole words only.  When the name  *)
(* of a method or field begins with a modifier keyword (`.method protected *)
(* finalize()V`, `.field private nativeHandle:J`, `.field public           *)
(* staticValue:I`), parse_modifiers stops in front of the name: the parsed *)
(* identifier is the whole name and the modifier list holds only the       *)
(* modifiers that were written.                                            *)
(***************************************************************************)
\* the members of the parsed Class of the kind the document was written with
C27_Members == IF input.member = "field" THEN first.val.fields ELSE first.val.methods

C27_WholeWordModifiers ==
    (pc = "parsed" /\ input.job = "class" /\ input.member # "") =>
        /\ first.ok
        /\ Len(C27_Members) = 1
        /\ C27_Members[1].param.ident = input.name
        /\ C27_Members[1].modifiers = input.modifiers

(***************************************************************************)
(* C28: field references with `$` in the member name.  For a field         *)
(* reference `Lcls;->name:Type` whose name holds a `$` (`this$0`,          *)
(* `$VALUES`), parse_field_ref, and with it every iget, iput, sget and     *)
(* sput instruction written with the reference, succeeds with param.ident  *)
(* equal to the whole name, and rendering gives the same reference back.   *)
(***************************************************************************)
\* the references the claim names, with the name each is written with
C28_References ==
    {[text |-> "La/B;->this$0:La/C;", name |-> "this$0"], [text |-> "La/B;->$VALUES:[La/B;", name |-> "$VALUES"]}

\* the line is an instruction whose last operand is the reference r
C28_Line(r) ==
    /\ input.job = "instruction"
    /\ input.arity = "full"
    /\ Len(input.ops) > 0
    /\ input.ops[Len(input.ops)].text = r.text

C28_DollarFieldNames ==
    \A r \in C28_References :
        /\ (pc = "parsed" /\ C28_Line(r)) =>
                /\ first.kind = "ok"
                /\ first.op.fields.field.param.ident = r.name
        /\ (pc = "rendered" /\ C28_Line(r)) =>
                rendered.text = LineText(input.mnemonic, 0, input.ops, "")

(***************************************************************************)
(* C29: the three modifier keyword tables agree.  For every Modifier m,    *)
(* Modifier::from_str(m.to_str()) is Ok(m); and for every keyword k that   *)
(* parse_modifiers accepts, parse_modifiers gives for k the Modifier that  *)
(* Modifier::from_str(k) gives.                                             *)
(***************************************************************************)
C29_TablesAgree ==
    /\ (pc = "reparsed" /\ input.job = "modifier" /\ input.of = "value") =>
            second = [ok |-> TRUE, val |-> input.m]
    /\ (pc = "reparsed" /\ input.job = "modifier" /\ input.of = "keyword" /\ first.ok /\ first.val # <<>>
        /\ first.rest = "") =>
            /\ second.ok
            /\ first.val = <<second.val>>

(***************************************************************************)
(* C30: switch-table keys round trip over the whole 32-bit range.  For     *)
(* every i32 key k, negative keys included, the text written for a         *)
(* PackedSwitchDirective with first_key k, and for a SparseSwitchEntry     *)
(* with key k, is accepted by its parser and gives the same key with the   *)
(* same targets.                                                           *)
(***************************************************************************)
C30_SwitchKeysRoundTrip ==
    (/\ pc = "reparsed" /\ input.job = "op"
     /\ first.val.k \in {"Op::PackedSwitch", "Op::SparseSwitch"}) =>
        /\ second.ok
        /\ second.val = first.val

====
